---- MODULE Spec2Model ----
(***************************************************************************)
(* A model of the terrain generator's core crate: the permutation tables   *)
(* and lattice hashing of Perlin2D / Perlin3D / Simplex2D, the             *)
(* Diamond-Square generator Fractal2D, DomainWarp2D and ThermalErosion2D.  *)
(*                                                                         *)
(* Numbers.  u64 values are four 16-bit limbs, so the xorshift streams are *)
(* computed bit for bit.  usize values are kept in two's complement: a     *)
(* value v >= 2^63 is represented by v - 2^64, so that usize::MAX is -1,   *)
(* and comparisons are made unsigned (ULt).  Floating point heights are    *)
(* fixed-point integers in units of 1/Unit; sample coordinates are taken   *)
(* on half-integer lattice points, where the fade curve and the            *)
(* interpolations are exact in binary fractions.                           *)
(***************************************************************************)
EXTENDS Integers, Sequences, FiniteSets, TLC

VARIABLES
    samplers,   \* the Perlin2D / Perlin3D / Simplex2D instances built so far
    sampled,    \* per sampler instance: the last get2 / get3 call and its outcome
    built,      \* number of sampler constructions performed (program-wide)
    swaps,      \* per sampler instance: the Fisher-Yates swap index j drawn for each i
    hashed,     \* the last call of noise / raw_noise: the integer additions it made
                \* and the indices into perm and grad3 it computed
    fractals,   \* the Fractal2D instances built so far
    returned,   \* per Fractal2D instance: the grid its last generate() returned
    genlog,     \* per Fractal2D instance: what the last generate() wrote and read
    held,       \* per Fractal2D instance: the returned grid as its caller holds it now
    draws,      \* number of rng() calls made by Fractal2D so far
    fcall,      \* the last call on Fractal2D and its outcome
    warped,     \* the last DomainWarp2D::generate(): its fields and the grid returned
    direct,     \* the last direct sampling of a base sampler over the grid
    erosion,    \* per caller: the grid under ThermalErosion2D::apply, its progress, and
                \* for the record the grid before the last pass and that pass's transfers
    util,       \* the last call of a utils function: its argument, the argument after
                \* the call, and the result
    col,        \* the documents of the MongoDB collection
    scall,      \* the last call on Storage2D and its outcome
    created,    \* the document of the last create, while it succeeded and no
                \* create or delete followed it
    inflight,   \* the document of a create of another task that has awaited its
                \* delete_one and not yet sent its insert_one
    app         \* the fields of TerrainApp, and the arm its last handler took

noiseVars == <<samplers, sampled, swaps, built, hashed>>
fractalVars == <<fractals, returned, genlog, held, draws, fcall>>
warpVars == <<warped, direct>>
erosionVars == <<erosion>>
utilVars == <<util>>
storageVars == <<col, scall, created, inflight>>
appVars == <<app>>
vars == <<samplers, sampled, swaps, built, hashed, fractals, returned, genlog, held, draws, fcall,
          warped, direct, erosion, util, col, scall, created, inflight,
          app>>

(***************************************************************************)
(* Bounds of the model.                                                    *)
(***************************************************************************)
MaxSeedIdx == 2
MaxOctaves == 2
MaxSize == 9        \* sizes tried on Fractal2D::new
MaxGenerate == 2    \* generate() calls per Fractal2D instance
MaxWarpSize == 3    \* grid sizes of DomainWarp2D
MaxStrength == 2    \* warp_strength, in halves
MaxPeak == 2        \* peak heights of the eroded grids, in whole units
MaxIterations == 2  \* passes of ThermalErosion2D::apply
MaxDocs == 2        \* documents in the collection

(***************************************************************************)
(* 64-bit words: four 16-bit limbs <<l0, l1, l2, l3>>, l0 least            *)
(* significant.                                                            *)
(***************************************************************************)
Limb == 65536

Pow2(n) == 2 ^ n

\* The function f as an explicit table, evaluated once.
Table(f) == f @@ <<>>

\* Step applied to st for the items seq[lo], .., seq[hi] in order: a loop over
\* seq with loop state st (split in halves to keep the evaluation shallow).
RECURSIVE FoldSeq(_, _, _, _, _)
FoldSeq(Step(_, _), st, seq, lo, hi) ==
    IF lo > hi THEN st
    ELSE IF lo = hi THEN Step(st, seq[lo])
    ELSE LET mid == (lo + hi) \div 2
         IN CHOOSE r \in {FoldSeq(Step, first, seq, mid + 1, hi) :
                            first \in {FoldSeq(Step, st, seq, lo, mid)}} : TRUE

\* The word whose limbs are l3 (most significant) .. l0.
Word(l3, l2, l1, l0) == <<l0, l1, l2, l3>>

Bit(a, k) == (a \div Pow2(k)) % 2
XorBit(a, b, k) == ((Bit(a, k) + Bit(b, k)) % 2) * Pow2(k)
\* a ^ b on one limb
Xor16(a, b) ==
      XorBit(a, b, 0) + XorBit(a, b, 1) + XorBit(a, b, 2) + XorBit(a, b, 3)
    + XorBit(a, b, 4) + XorBit(a, b, 5) + XorBit(a, b, 6) + XorBit(a, b, 7)
    + XorBit(a, b, 8) + XorBit(a, b, 9) + XorBit(a, b, 10) + XorBit(a, b, 11)
    + XorBit(a, b, 12) + XorBit(a, b, 13) + XorBit(a, b, 14) + XorBit(a, b, 15)

Xor(a, b) == <<Xor16(a[1], b[1]), Xor16(a[2], b[2]), Xor16(a[3], b[3]), Xor16(a[4], b[4])>>

\* x << 13: every limb keeps its low 3 bits, moved up, and takes the high 13
\* bits of the limb below; the top 13 bits of the word are lost.
Shl13(a) ==
    <<(a[1] * 8192) % Limb,
      ((a[2] * 8192) % Limb) + (a[1] \div 8),
      ((a[3] * 8192) % Limb) + (a[2] \div 8),
      ((a[4] * 8192) % Limb) + (a[3] \div 8)>>

\* x >> 7
Shr7(a) ==
    <<(a[1] \div 128) + ((a[2] % 128) * 512),
      (a[2] \div 128) + ((a[3] % 128) * 512),
      (a[3] \div 128) + ((a[4] % 128) * 512),
      a[4] \div 128>>

\* x << 17: one limb and one bit
Shl17(a) ==
    <<0,
      (a[1] * 2) % Limb,
      ((a[2] * 2) % Limb) + (a[1] \div 32768),
      ((a[3] * 2) % Limb) + (a[2] \div 32768)>>

\* x ^= x << 13; x ^= x >> 7; x ^= x << 17
XorShift(x) ==
    LET a == Xor(x, Shl13(x))
        b == Xor(a, Shr7(a))
    IN Xor(b, Shl17(b))

\* (x & 0xFF) as u8
LowByte(x) == x[1] % 256

\* The seeds the model draws from: 0, 1234 (perlin2_determinism), the seed that
\* cancels Perlin2D's constant (the xorshift stream is then stuck at 0), and
\* further words built from the index.
SeedWord(s) ==
    CASE s = 0 -> Word(0, 0, 0, 0)
      [] s = 1 -> Word(0, 0, 0, 1234)
      [] s = 2 -> Word(57005, 48879, 51966, 47806)
      [] s = 3 -> Word(0, 0, 0, 140)
      [] OTHER -> Word((s * 40503) % 65536, (s * 7919) % 65536, (s * 104729) % 65536, s)
Seeds == 0 .. MaxSeedIdx

(***************************************************************************)
(* Permutation tables (Perlin2D::new, Perlin3D::new, Simplex2D::new).      *)
(***************************************************************************)
TableSize == 256
PermSize == 512
Bytes == 0 .. (TableSize - 1)
PermIdx == 0 .. (PermSize - 1)

Kinds == {"Perlin2D", "Perlin3D", "Simplex2D"}

\* The constant each sampler type XORs into the seed.
SeedMask(kind) ==
    CASE kind = "Perlin2D"  -> Word(57005, 48879, 51966, 47806)   \* 0xDEADBEEFCAFEBABE
      [] kind = "Perlin3D"  -> Word(43707, 52445, 61183, 4386)    \* 0xAABBCCDDEEFF1122
      [] kind = "Simplex2D" -> Word(4660, 22136, 39612, 57072)    \* 0x123456789ABCDEF0

\* let mut x = seed ^ MASK
RngInit(kind, seed) == Xor(SeedWord(seed), SeedMask(kind))

\* (0..256).map(|i| i as u8).collect()
IdentityTable == Table([i \in Bytes |-> i])

\* let j = (rng() as usize) % (i + 1)
SwapIndexUnbounded(r, i) == r % TableSize
SwapIndex(r, i) == r % (i + 1)

\* p.swap(i, j)
Swap(p, i, j) == [p EXCEPT ![i] = p[j], ![j] = p[i]]

\* One iteration of for i in (1..256).rev() { let j = ..; p.swap(i, j); }
\* on the loop state st = [p, js, x]; js records the j drawn for each i.
ShuffleStep(st, i) ==
    LET x1 == XorShift(st.x)
        j  == SwapIndex(LowByte(x1), i)
    IN [p |-> Swap(st.p, i, j), js |-> [st.js EXCEPT ![i] = j], x |-> x1]

\* (1..256).rev()
ShuffleOrder == Table([k \in 1 .. (TableSize - 1) |-> TableSize - k])

\* for i in 0..512 { perm[i] = p[i & 255]; }
Duplicate(p) == Table([i \in PermIdx |-> p[i % TableSize]])

NoSwaps == Table([i \in 1 .. (TableSize - 1) |-> 0])

BuildPerm(kind, seed) ==
    LET sh == FoldSeq(ShuffleStep,
                      [p |-> IdentityTable, js |-> NoSwaps, x |-> RngInit(kind, seed)],
                      ShuffleOrder, 1, TableSize - 1)
    IN [perm |-> Duplicate(sh.p), js |-> sh.js]

\* The tables of all (kind, seed) the model draws from, computed once.
PermTables == Table([ks \in Kinds \X Seeds |-> BuildPerm(ks[1], ks[2])])

\* The table a constructor call builds: a function of its own seed alone.  The
\* variant seeds from the seed and the number of tables built before.
TableOfShared(kind, seed) == PermTables[<<kind, (seed + built) % (MaxSeedIdx + 1)>>]
TableOf(kind, seed) == PermTables[<<kind, seed>>]

(***************************************************************************)
(* Lattice noise.  A coordinate c is the integer 2 * x for a half-integer  *)
(* x; fractional offsets are in halves as well.  A lerp doubles the scale  *)
(* of its result (a + t * (b - a) with t in halves), so Perlin2D::noise is *)
(* returned in eighths and Perlin3D::noise in sixteenths.                  *)
(***************************************************************************)
\* x.floor()
Floor2(c) == c \div 2
\* x.floor() as i32 & 255
Cell(c) == Floor2(c) % TableSize
\* x - x.floor(), in halves
Frac2(c) == c - 2 * Floor2(c)

\* t * t * t * (t * (t * 6.0 - 15.0) + 10.0), argument and result in halves
Fade(t) == (t * t * t * (3 * t * t - 15 * t + 20)) \div 8

\* a + t * (b - a), t in halves; the result is in half the unit of a and b
Lerp(a, b, t) == 2 * a + t * (b - a)

\* Perlin2D::grad
Grad2(hash, x, y) ==
    LET h == hash % 16
        u == IF h < 8 THEN x ELSE y
        v == IF h < 8 THEN y ELSE x
        sign_u == IF h % 2 = 0 THEN u ELSE -u
        sign_v == IF (h \div 2) % 2 = 0 THEN v ELSE -v
    IN sign_u + sign_v

\* Perlin2D::noise
Noise2(perm, x, y) ==
    LET xi == Cell(x)
        yi == Cell(y)
        xf == Frac2(x)
        yf == Frac2(y)
        u  == Fade(xf)
        v  == Fade(yf)
        aa == perm[(perm[xi] + yi) % TableSize]
        ab == perm[(perm[xi] + ((yi + 1) % TableSize)) % TableSize]
        ba == perm[(perm[(xi + 1) % TableSize] + yi) % TableSize]
        bb == perm[(perm[(xi + 1) % TableSize] + ((yi + 1) % TableSize)) % TableSize]
        x1 == Lerp(Grad2(aa, xf, yf), Grad2(ba, xf - 2, yf), u)
        x2 == Lerp(Grad2(ab, xf, yf - 2), Grad2(bb, xf - 2, yf - 2), u)
    IN Lerp(x1, x2, v)

\* Perlin3D::grad
Grad3(hash, x, y, z) ==
    LET h == hash % 16
        u == IF h < 8 THEN x ELSE y
        v == IF h < 4 THEN y ELSE IF h = 12 \/ h = 14 THEN x ELSE z
        sign_u == IF h % 2 = 0 THEN u ELSE -u
        sign_v == IF (h \div 2) % 2 = 0 THEN v ELSE -v
    IN sign_u + sign_v

\* Perlin3D::noise
Noise3(perm, x, y, z) ==
    LET xi == Cell(x)
        yi == Cell(y)
        zi == Cell(z)
        xf == Frac2(x)
        yf == Frac2(y)
        zf == Frac2(z)
        u  == Fade(xf)
        v  == Fade(yf)
        w  == Fade(zf)
        xa == perm[xi]
        xb == perm[(xi + 1) % TableSize]
        y1i == (yi + 1) % TableSize
        z1i == (zi + 1) % TableSize
        aaa == perm[(perm[(xa + yi) % TableSize] + zi) % TableSize]
        aba == perm[(perm[(xa + y1i) % TableSize] + zi) % TableSize]
        aab == perm[(perm[(xa + yi) % TableSize] + z1i) % TableSize]
        abb == perm[(perm[(xa + y1i) % TableSize] + z1i) % TableSize]
        baa == perm[(perm[(xb + yi) % TableSize] + zi) % TableSize]
        bba == perm[(perm[(xb + y1i) % TableSize] + zi) % TableSize]
        bab == perm[(perm[(xb + yi) % TableSize] + z1i) % TableSize]
        bbb == perm[(perm[(xb + y1i) % TableSize] + z1i) % TableSize]
        x1 == Lerp(Grad3(aaa, xf, yf, zf), Grad3(baa, xf - 2, yf, zf), u)
        x2 == Lerp(Grad3(aba, xf, yf - 2, zf), Grad3(bba, xf - 2, yf - 2, zf), u)
        y1 == Lerp(x1, x2, v)
        x3 == Lerp(Grad3(aab, xf, yf, zf - 2), Grad3(bab, xf - 2, yf, zf - 2), u)
        x4 == Lerp(Grad3(abb, xf, yf - 2, zf - 2), Grad3(bbb, xf - 2, yf - 2, zf - 2), u)
        y2 == Lerp(x3, x4, v)
    IN Lerp(y1, y2, w)

\* Simplex2D::raw_noise, up to its floating-point tail: the simplex cell (i, j),
\* the triangle (i1, j1) and the three gradient indices the perm table selects.
\* F2 = 0.5 * (sqrt(3) - 1) is taken to five decimals, F2 = F2Scaled / F2Scale;
\* x0 > y0 is decided on xin - i and yin - j, the unskew term t being common to
\* both.
F2Scaled == 36603
F2Scale == 100000
SimplexCell(xin, yin) ==
    LET s2 == (xin + yin) * F2Scaled          \* 2 * s, in units of 1 / F2Scale
        i  == (xin * F2Scale + s2) \div (2 * F2Scale)
        j  == (yin * F2Scale + s2) \div (2 * F2Scale)
        lower == (xin - 2 * i) > (yin - 2 * j)
    IN [i |-> i, j |-> j, i1 |-> IF lower THEN 1 ELSE 0, j1 |-> IF lower THEN 0 ELSE 1]

GradCount == 12
\* the gradient directions of Simplex2D::new, grad3[0] first
grad3 ==
    <<<<1, 1>>, <<-1, 1>>, <<1, -1>>, <<-1, -1>>, <<1, 0>>, <<-1, 0>>, <<0, 1>>, <<0, -1>>,
      <<1, 2>>, <<-1, 2>>, <<1, -2>>, <<-1, -2>>>>
\* G2 = (3 - sqrt(3)) / 6 to six decimals, G2 = G2Micro / Micro
G2Micro == 211325
Micro == 1000000
Milli == 1000
\* Self::dot(g, x, y), x and y in thousandths
Dot(g, x, y) == g[1] * x + g[2] * y
\* one corner's term: t = 0.5 - x * x - y * y in thousandths, t * t in units of
\* 1e-4, its square in units of 1e-6, and t^4 * dot in units of 1e-6 (each
\* division rounds down); 0 when t <= 0
CornerTerm(gi, x, y) ==
    LET t == (Milli \div 2) - ((x * x + y * y) \div Milli)
        t_sq == (t * t) \div 100
        t_4 == (t_sq * t_sq) \div 100
        g == grad3[gi + 1]
    IN IF t > 0 THEN (t_4 * Dot(g, x, y)) \div Milli ELSE 0
\* the cell, the triangle, the three gradient indices, and the value
\* 70.0 * (n0 + n1 + n2) in units of 1 / Micro
RawNoise(perm, xin, yin) ==
    LET c  == SimplexCell(xin, yin)
        ii == c.i % TableSize
        jj == c.j % TableSize
        gi0 == perm[ii + perm[jj]] % GradCount
        gi1 == perm[ii + c.i1 + perm[jj + c.j1]] % GradCount
        gi2 == perm[ii + 1 + perm[jj + 1]] % GradCount
        t  == ((c.i + c.j) * G2Micro) \div Milli
        x0 == (Milli \div 2) * xin - Milli * c.i + t
        y0 == (Milli \div 2) * yin - Milli * c.j + t
        x1 == x0 - Milli * c.i1 + (G2Micro \div Milli)
        y1 == y0 - Milli * c.j1 + (G2Micro \div Milli)
        x2 == x0 - Milli + ((2 * G2Micro) \div Milli)
        y2 == y0 - Milli + ((2 * G2Micro) \div Milli)
    IN <<c.i, c.j, c.i1, c.j1, gi0, gi1, gi2,
         70 * (CornerTerm(gi0, x0, y0) + CornerTerm(gi1, x1, y1) + CornerTerm(gi2, x2, y2))>>

(***************************************************************************)
(* The integer arithmetic of noise and raw_noise.  A lattice coordinate is *)
(* x.floor() as i32, a cast that saturates at i32::MIN and i32::MAX.  A    *)
(* call is recorded by the i32 additions it makes (adds), its usize        *)
(* additions (uadds), the indices at which it reads perm (table) and the   *)
(* indices at which it reads grad3 (grads).  overflow_checks is the        *)
(* build's choice (on in debug builds, off in release builds).             *)
(***************************************************************************)
I32Max == 2147483647
I32Min == 0 - I32Max - 1
\* a + b on i32 leaves the range of i32
AddI32Overflows(a, b) == (b > 0 /\ a > I32Max - b) \/ (b < 0 /\ a < I32Min - b)
\* a.wrapping_add(b) on i32
WrappingAdd(a, b) ==
    IF ~AddI32Overflows(a, b) THEN a + b
    ELSE IF b > 0 THEN (a - I32Max - 1) + (b - I32Max - 1)
    ELSE (a + I32Max + 1) + (b + I32Max + 1)
\* i & 255 on i32, two's complement
And255(i) == i % TableSize

NoHashed ==
    [kind |-> "none", at |-> <<>>, panic |-> FALSE, why |-> "", adds |-> {}, uadds |-> {},
     table |-> {}, grads |-> {}]
Hashed(kind, at, adds, uadds, table, grads) ==
    [kind |-> kind, at |-> at, panic |-> FALSE, why |-> "", adds |-> adds, uadds |-> uadds,
     table |-> table, grads |-> grads]

\* Perlin2D::noise on x.floor() as i32 = x, y.floor() as i32 = y: the hashing
\* of the four corners
Noise2Hash(perm, x, y) ==
    LET xi == And255(x)
        yi == And255(y)
        xi1 == And255(xi + 1)
        yi1 == And255(yi + 1)
    IN Hashed("Perlin2D", <<x, y>>, {<<xi, 1>>, <<yi, 1>>},
              {<<perm[xi], yi>>, <<perm[xi], yi1>>, <<perm[xi1], yi>>, <<perm[xi1], yi1>>},
              {xi, xi1, And255(perm[xi] + yi), And255(perm[xi] + yi1),
               And255(perm[xi1] + yi), And255(perm[xi1] + yi1)},
              {})

\* Perlin3D::noise on the floors x, y, z: the hashing of the eight corners
Noise3Hash(perm, x, y, z) ==
    LET xi == And255(x)
        yi == And255(y)
        zi == And255(z)
        xs == {xi, And255(xi + 1)}
        ys == {yi, And255(yi + 1)}
        zs == {zi, And255(zi + 1)}
        inner == {<<a, b>> : a \in xs, b \in ys}
        mid(ab) == And255(perm[ab[1]] + ab[2])
    IN Hashed("Perlin3D", <<x, y, z>>, {<<xi, 1>>, <<yi, 1>>, <<zi, 1>>},
              {<<perm[ab[1]], ab[2]>> : ab \in inner}
                  \cup {<<perm[mid(ab)], c>> : ab \in inner, c \in zs},
              xs \cup {mid(ab) : ab \in inner}
                  \cup {And255(perm[mid(ab)] + c) : ab \in inner, c \in zs},
              {})

\* Simplex2D::raw_noise on the floors i, j and the triangle (i1, j1): the
\* unskew factor (i + j) as f64 * G2 and the hashing of the three corners
RawNoiseHash(perm, i, j, i1, overflow_checks) ==
    LET j1 == 1 - i1
        ii == And255(i)
        jj == And255(j)
        at0 == ii + perm[jj]
        at1 == ii + i1 + perm[jj + j1]
        at2 == ii + 1 + perm[jj + 1]
    IN IF AddI32Overflows(i, j) /\ overflow_checks
       THEN [NoHashed EXCEPT !.kind = "Simplex2D", !.at = <<i, j>>, !.panic = TRUE,
                             !.why = "attempt to add with overflow", !.adds = {<<i, j>>}]
       ELSE Hashed("Simplex2D", <<i, j>>, {<<i, j>>},
                   {<<ii, perm[jj]>>, <<jj, j1>>, <<ii, i1>>, <<ii + i1, perm[jj + j1]>>,
                    <<jj, 1>>, <<ii, 1>>, <<ii + 1, perm[jj + 1]>>},
                   {jj, at0, jj + j1, at1, jj + 1, at2},
                   {perm[at0] % GradCount, perm[at1] % GradCount, perm[at2] % GradCount})

\* The floors tried: the ends of i32 (where the cast saturates), both sides of
\* 0, the last cell of the table, and floor(1e9 + 2e9 * F2) and its negative,
\* the simplex cell of the points (1e9, 1e9) and (-1e9, -1e9)
LatticeValues == {I32Min, 0 - 1732050808, 0 - 1, 0, 255, 1732050807, I32Max}

(***************************************************************************)
(* Multi-octave sampling (the get2 / get3 of the three samplers).          *)
(* persistence is in halves; amplitudes are scaled by 2^octaves so that    *)
(* amplitude *= persistence stays exact.                                   *)
(***************************************************************************)
\* self.noise(x * freq, y * freq[, z * freq]) resp. self.raw_noise(..)
RawAt(kind, perm, at, freq) ==
    CASE kind = "Perlin2D"  -> Noise2(perm, at[1] * freq, at[2] * freq)
      [] kind = "Perlin3D"  -> Noise3(perm, at[1] * freq, at[2] * freq, at[3] * freq)
      [] kind = "Simplex2D" -> RawNoise(perm, at[1] * freq, at[2] * freq)

\* for _ in 0..self.octaves { total += noise * amplitude; max_amp += amplitude;
\*                            amplitude *= self.persistence; freq *= 2.0; }
\* The terms <<noise, amplitude>> of the sum, in order.
RECURSIVE OctaveTerms(_, _, _, _, _, _)
OctaveTerms(g, at, freq, amplitude, n, terms) ==
    IF n = 0 THEN terms
    ELSE OctaveTerms(g, at, freq * 2, (amplitude * g.persistence) \div 2, n - 1,
                     Append(terms, <<RawAt(g.kind, g.perm, at, freq), amplitude>>))

RECURSIVE SumTerms(_, _)
SumTerms(terms, weighted) ==
    IF terms = <<>> THEN 0
    ELSE (IF weighted THEN Head(terms)[1] * Head(terms)[2] ELSE Head(terms)[2])
         + SumTerms(Tail(terms), weighted)

\* total / max_amp, kept as the pair (for Simplex2D: the terms and max_amp)
FractalSum(g, at) ==
    LET terms == OctaveTerms(g, at, g.frequency, Pow2(g.octaves), g.octaves, <<>>)
    IN IF g.kind = "Simplex2D"
       THEN [panic |-> FALSE, total |-> terms, max_amp |-> SumTerms(terms, FALSE)]
       ELSE [panic |-> FALSE, total |-> SumTerms(terms, TRUE), max_amp |-> SumTerms(terms, FALSE)]

(***************************************************************************)
(* trait NoiseGenerator: the default get2 / get3 panic; Perlin2D and       *)
(* Simplex2D (and Fractal2D) override get2, Perlin3D overrides get3.       *)
(***************************************************************************)
Panic == [panic |-> TRUE, total |-> 0, max_amp |-> 0]

\* fn get2(&self, ..) -> f64 { panic!("get2 not implemented for this generator") }
DefaultGet2 == Panic
\* fn get3(&self, ..) -> f64 { panic!("get3 not implemented for this generator") }
SilentZero == [panic |-> FALSE, total |-> 0, max_amp |-> 1]
DefaultGet3 == Panic

SamplerGet2(g, at) ==
    IF g.kind \in {"Perlin2D", "Simplex2D"} THEN FractalSum(g, at) ELSE DefaultGet2
SamplerGet3(g, at) ==
    IF g.kind = "Perlin3D" THEN FractalSum(g, at) ELSE DefaultGet3

(***************************************************************************)
(* Sampler instances.                                                      *)
(***************************************************************************)
Insts == {1, 2}
NoSampler ==
    [kind |-> "none", seed |-> 0, frequency |-> 0, persistence |-> 0, octaves |-> 0,
     perm |-> <<>>]
NoCall == [call |-> "none", at |-> <<>>, out |-> Panic]

\* Sample points (twice the coordinate): a cell centre, the point (0.5, 1.0), and
\* a point with negative and half-integer coordinates in lattice cell 255, next
\* to the wrap.
Points2 == {<<1, 1>>, <<1, 2>>, <<-3, 511>>}
Points3 == {<<-1, 2, 511>>}
Frequencies == {1}
Persistences == {1}      \* 0.5, the persistence of every test of the crate

\* Perlin2D::new / Perlin3D::new / Simplex2D::new
NewSampler(n, kind, seed, frequency, persistence, octaves) ==
    /\ samplers[n].kind = "none"
    /\ \A m \in Insts : m < n => samplers[m].kind # "none"
    /\ LET b == TableOf(kind, seed)
       IN /\ samplers' = [samplers EXCEPT ![n] =
                            [kind |-> kind, seed |-> seed, frequency |-> frequency,
                             persistence |-> persistence, octaves |-> octaves,
                             perm |-> b.perm]]
          /\ swaps' = [swaps EXCEPT ![n] = b.js]
    /\ built' = built + 1
    /\ UNCHANGED <<sampled, hashed, fractalVars, warpVars, erosionVars, utilVars, storageVars, appVars>>

\* a call of get2 on a sampler
CallGet2(n, at) ==
    /\ samplers[n].kind # "none"
    /\ sampled' = [sampled EXCEPT ![n] =
                     [call |-> "get2", at |-> at, out |-> SamplerGet2(samplers[n], at)]]
    /\ UNCHANGED <<samplers, swaps, built, hashed, fractalVars, warpVars, erosionVars, utilVars, storageVars, appVars>>

\* a call of get3 on a sampler
CallGet3(n, at) ==
    /\ samplers[n].kind # "none"
    /\ sampled' = [sampled EXCEPT ![n] =
                     [call |-> "get3", at |-> at, out |-> SamplerGet3(samplers[n], at)]]
    /\ UNCHANGED <<samplers, swaps, built, hashed, fractalVars, warpVars, erosionVars, utilVars, storageVars, appVars>>

\* a call of noise / raw_noise of a sampler at a point with these floors; for
\* Simplex2D i1 tells the triangle
CallNoise(n, at, i1, overflow_checks) ==
    /\ samplers[n].kind # "none"
    /\ hashed' =
          CASE samplers[n].kind = "Perlin2D" -> Noise2Hash(samplers[n].perm, at[1], at[2])
            [] samplers[n].kind = "Perlin3D" ->
                   Noise3Hash(samplers[n].perm, at[1], at[2], at[3])
            [] samplers[n].kind = "Simplex2D" ->
                   RawNoiseHash(samplers[n].perm, at[1], at[2], i1, overflow_checks)
    /\ UNCHANGED <<samplers, sampled, swaps, built, fractalVars, warpVars, erosionVars, utilVars, storageVars, appVars>>

(***************************************************************************)
(* usize, in two's complement: usize::MAX is -1.                           *)
(***************************************************************************)
UsizeMax == -1
\* a >= b on usize
UGe(a, b) == IF (a < 0) = (b < 0) THEN a >= b ELSE a < 0
ULt(a, b) == ~UGe(a, b)
\* a + 1 overflows exactly at usize::MAX
AddOverflows(a) == a = UsizeMax

\* usize::is_power_of_two
RECURSIVE IsPowerOfTwo(_)
IsPowerOfTwo(n) == n > 0 /\ (n = 1 \/ (n % 2 = 0 /\ IsPowerOfTwo(n \div 2)))

(***************************************************************************)
(* Fractal2D (Diamond-Square).  Heights are integers in units of 1/Unit.   *)
(***************************************************************************)
Unit == 1024

\* assert!(size >= 3 && (size - 1).is_power_of_two(), "size must be 2^n+1")
\* (&& does not evaluate size - 1 when size < 3)
SizeOkNoMinimum(size) == IsPowerOfTwo(size - 1)
SizeOk(size) == size >= 3 /\ IsPowerOfTwo(size - 1)

\* vec![vec![0.0f32; size]; size]
ZeroMap(size) == Table([y \in 0 .. (size - 1) |-> Table([x \in 0 .. (size - 1) |-> 0])])

\* let mut x = self.seed ^ 0xCAFEBABE12345678
FractalRngInit(seed) == Xor(SeedWord(seed), Word(51966, 47806, 4660, 22136))

\* a draw in [-4, 4)
ToUnitRangeWide(x) == (x[4] \div 8) - 4 * Unit
\* ((x as f64 / u64::MAX as f64) * 2.0 - 1.0) as f32, from the top 11 bits of x
ToUnitRange(x) == (x[4] \div 32) - Unit

\* rng() * offset
Scaled(r, offset) == (r * offset) \div Unit

\* The loop state of generate(): the local map, the rng state x, the number of
\* rng() calls, and for the record how often each cell was assigned (writes)
\* the cells that were read for an average before any assignment (stale), and
\* the values cnt took in the square step (counts).
\* map[y][x] = v
Assign(st, y, x, v) ==
    [st EXCEPT !.map[y][x] = v, !.writes[y][x] = @ + 1]
Draw(st) == [st EXCEPT !.x = XorShift(st.x), !.draws = @ + 1]
ReadCells(st, cells) ==
    [st EXCEPT !.stale = @ \cup {c \in cells : st.writes[c[1]][c[2]] = 0}]

\* map[0][0] = rng(); map[0][size-1] = rng(); map[size-1][0] = rng(); ...
CornerStep(st, c) ==
    LET d == Draw(st)
    IN Assign(d, c[1], c[2], ToUnitRange(d.x))

\* the body of the diamond loops, item = <<y, x, step, offset>>: the cell's
\* top-left corner, the round's step and offset
DiamondStep(st, item) ==
    LET y == item[1]
        x == item[2]
        step == item[3]
        half == step \div 2
        m == st.map
        avg == (m[y][x] + m[y][x + step] + m[y + step][x] + m[y + step][x + step]) \div 4
        d == Draw(ReadCells(st, {<<y, x>>, <<y, x + step>>, <<y + step, x>>,
                                  <<y + step, x + step>>}))
    IN Assign(d, y + half, x + half, avg + Scaled(ToUnitRange(d.x), item[4]))

\* the neighbours the square step averages: those within the grid
SquareNeighbours(size, y, x, half) ==
    (IF x >= half THEN {<<y, x - half>>} ELSE {})
    \cup (IF x + half < size THEN {<<y, x + half>>} ELSE {})
    \cup (IF y >= half THEN {<<y - half, x>>} ELSE {})
    \cup (IF y + half < size THEN {<<y + half, x>>} ELSE {})

RECURSIVE SumCells(_, _)
SumCells(m, cells) ==
    IF cells = {} THEN 0
    ELSE LET c == CHOOSE c \in cells : TRUE
         IN m[c[1]][c[2]] + SumCells(m, cells \ {c})

\* the body of the square loops, item = <<y, x, step, offset>>
SquareStep(st, item) ==
    LET y == item[1]
        x == item[2]
        half == item[3] \div 2
        nb == SquareNeighbours(st.size, y, x, half)
        avg == SumCells(st.map, nb) \div Cardinality(nb)
        d == Draw(ReadCells([st EXCEPT !.counts = @ \cup {Cardinality(nb)}], nb))
    IN Assign(d, y, x, avg + Scaled(ToUnitRange(d.x), item[4]))

\* for y in (0..self.size - 1).step_by(step) { for x in (0..self.size - 1).step_by(step)
DiamondCells(size, step, offset) ==
    LET n == (size - 1) \div step
    IN Table([k \in 1 .. n * n |->
                <<"diamond", ((k - 1) \div n) * step, ((k - 1) % n) * step, step, offset>>])

\* for x in ((y + half)..self.size).step_by(step)
SquareRow(size, y, step, offset) ==
    LET half == step \div 2
        n == IF y + half >= size THEN 0 ELSE ((size - 1 - (y + half)) \div step) + 1
    IN Table([k \in 1 .. n |-> <<"square", y, y + half + (k - 1) * step, step, offset>>])

\* for y in (0..self.size).step_by(half): the rows y, y + half, ..
RECURSIVE SquareCells(_, _, _, _)
SquareCells(size, y, step, offset) ==
    IF y >= size THEN <<>>
    ELSE SquareRow(size, y, step, offset) \o SquareCells(size, y + (step \div 2), step, offset)

\* while step > 1 { diamond step; square step; step = half; offset *= roughness }
RECURSIVE Rounds(_, _, _, _)
Rounds(size, step, offset, roughness) ==
    IF step <= 1 THEN <<>>
    ELSE DiamondCells(size, step, offset) \o SquareCells(size, 0, step, offset)
         \o Rounds(size, step \div 2, (offset * roughness) \div Unit, roughness)

Corners(size) ==
    <<<<"corner", 0, 0, 0, 0>>, <<"corner", 0, size - 1, 0, 0>>,
      <<"corner", size - 1, 0, 0, 0>>, <<"corner", size - 1, size - 1, 0, 0>>>>

GenerateStep(st, item) ==
    CASE item[1] = "corner"  -> CornerStep(st, <<item[2], item[3]>>)
      [] item[1] = "diamond" -> DiamondStep(st, <<item[2], item[3], item[4], item[5]>>)
      [] item[1] = "square"  -> SquareStep(st, <<item[2], item[3], item[4], item[5]>>)

\* Fractal2D::generate for an instance with these fields: the final loop state
GenerateRun(size, seed, roughness) ==
    LET items == Corners(size) \o Rounds(size, size - 1, Unit, roughness)
    IN FoldSeq(GenerateStep,
               [size |-> size, map |-> ZeroMap(size), x |-> FractalRngInit(seed),
                draws |-> 0, writes |-> ZeroMap(size), stale |-> {}, counts |-> {}],
               items, 1, Len(items))

\* The runs of generate() for all fields the model draws from, computed once.
Sizes == 0 .. MaxSize
Roughnesses == {Unit \div 2, Unit}
\* the seeds handed to Fractal2D::new: those of the samplers, and seed 140
FractalSeeds == Seeds \cup {3}
FractalRuns ==
    Table([a \in {sz \in Sizes : SizeOk(sz)} \X FractalSeeds \X Roughnesses |->
             GenerateRun(a[1], a[2], a[3])])

(***************************************************************************)
(* Fractal2D::get2.  A coordinate is [cls |-> "fin", n |-> k], the number  *)
(* k / (2 * size), so that x * size = k / 2, or [cls |-> "huge"], a finite *)
(* number so large that x * size >= 2^64.  overflow_checks is the build's  *)
(* choice (on in debug builds, off in release builds).                     *)
(***************************************************************************)
\* fx.floor() as usize: the cast saturates
AsUsize(c) ==
    IF c.cls = "huge" THEN UsizeMax
    ELSE IF Floor2(c.n) < 0 THEN 0 ELSE Floor2(c.n)

\* fx - xi as f64, in halves
FracOf(c, i) == c.n - 2 * i

Value(v) == [panic |-> FALSE, why |-> "", val |-> v, oob |-> FALSE]
OverflowPanic == [panic |-> TRUE, why |-> "attempt to add with overflow", val |-> 0, oob |-> FALSE]
IndexPanic == [panic |-> TRUE, why |-> "index out of bounds", val |-> 0, oob |-> TRUE]

\* a, b, c, d and the bilinear interpolation, in units of 1 / (4 * Unit)
Bilinear(self, c, d, xi, yi) ==
    LET map == self.map
        tx == FracOf(c, xi)
        ty == FracOf(d, yi)
        ab == map[yi][xi] * (2 - tx) + map[yi][xi + 1] * tx
        cd == map[yi + 1][xi] * (2 - tx) + map[yi + 1][xi + 1] * tx
    IN Value(ab * (2 - ty) + cd * ty)

FractalGet2(self, c, d, overflow_checks) ==
    LET xi == AsUsize(c)
        yi == AsUsize(d)
    IN \* if xi + 1 >= self.size || yi + 1 >= self.size { return 0.0; }
       IF AddOverflows(xi) /\ overflow_checks THEN OverflowPanic
       ELSE IF UGe(xi + 1, self.size) THEN Value(0)
       ELSE IF AddOverflows(yi) /\ overflow_checks THEN OverflowPanic
       ELSE IF UGe(yi + 1, self.size) THEN Value(0)
       \* self.map[yi][xi] is bounds-checked
       ELSE IF UGe(yi, self.size) \/ UGe(xi, self.size) THEN IndexPanic
       ELSE Bilinear(self, c, d, xi, yi)

(***************************************************************************)
(* Fractal2D instances.                                                    *)
(***************************************************************************)
NoFractal == [size |-> 0, seed |-> 0, roughness |-> 0, map |-> <<>>]
NoGrid == <<>>
NoLog == [calls |-> 0, writes |-> <<>>, stale |-> {}, counts |-> {}]
NoFCall == [op |-> "none", inst |-> 0, size |-> 0, at |-> <<>>, out |-> Value(0)]

\* Fractal2D::new, on a size the assert accepts
NewFractal(n, size, seed, roughness) ==
    /\ fractals[n].size = 0
    /\ \A m \in Insts : m < n => fractals[m].size # 0
    /\ SizeOk(size)
    /\ fractals' = [fractals EXCEPT ![n] =
                      [size |-> size, seed |-> seed, roughness |-> roughness,
                       map |-> ZeroMap(size)]]
    /\ fcall' = [op |-> "new", inst |-> n, size |-> size, at |-> <<>>, out |-> Value(0)]
    /\ UNCHANGED <<returned, genlog, held, draws, noiseVars, warpVars, erosionVars, utilVars, storageVars, appVars>>

\* Fractal2D::new, on a size the assert rejects: the panic leaves no instance
NewFractalPanics(size) ==
    /\ ~SizeOk(size)
    /\ fcall' = [op |-> "new", inst |-> 0, size |-> size, at |-> <<>>,
                 out |-> [panic |-> TRUE, why |-> "size must be 2^n+1", val |-> 0,
                          oob |-> FALSE]]
    /\ UNCHANGED <<fractals, returned, genlog, held, draws, noiseVars, warpVars, erosionVars, utilVars, storageVars, appVars>>

\* Fractal2D::generate: self.map = map.clone(); map
Generate(n) ==
    /\ fractals[n].size # 0
    /\ genlog[n].calls < MaxGenerate
    /\ LET self == fractals[n]
           run == FractalRuns[<<self.size, self.seed, self.roughness>>]
       IN /\ fractals' = [fractals EXCEPT ![n].map = run.map]
          /\ returned' = [returned EXCEPT ![n] = run.map]
          /\ held' = [held EXCEPT ![n] = run.map]
          /\ genlog' = [genlog EXCEPT ![n] = [calls |-> @.calls + 1, writes |-> run.writes,
                                             stale |-> run.stale, counts |-> run.counts]]
          /\ draws' = draws + run.draws
    /\ fcall' = [op |-> "generate", inst |-> n, size |-> fractals[n].size, at |-> <<>>,
                 out |-> Value(0)]
    /\ UNCHANGED <<noiseVars, warpVars, erosionVars, utilVars, storageVars, appVars>>

\* the caller changes the grid it was handed in place, as apply() of the
\* erosion and normalize2 do: here one write to the cell (0, 0)
CallerChanges(n) ==
    /\ returned[n] # NoGrid
    /\ held[n] = returned[n]
    /\ held' = [held EXCEPT ![n][0][0] = @ + Unit]
    /\ fcall' = [op |-> "change", inst |-> n, size |-> fractals[n].size, at |-> <<>>,
                 out |-> Value(0)]
    /\ UNCHANGED <<fractals, returned, genlog, draws, noiseVars, warpVars, erosionVars, utilVars, storageVars, appVars>>

\* the sample coordinates tried on a grid of this size
Coords(size) ==
    {[cls |-> "fin", n |-> k] : k \in {-3, 1, 2 * size - 3, 2 * size - 2, 2 * size + 1}}
    \cup {[cls |-> "huge", n |-> 0]}

\* a call of get2 on a Fractal2D
CallFractalGet2(n, c, d, overflow_checks) ==
    /\ fractals[n].size # 0
    /\ fcall' = [op |-> "get2", inst |-> n, size |-> fractals[n].size,
                 at |-> <<c, d, overflow_checks>>,
                 out |-> FractalGet2(fractals[n], c, d, overflow_checks)]
    /\ UNCHANGED <<fractals, returned, genlog, held, draws, noiseVars, warpVars, erosionVars, utilVars, storageVars, appVars>>

\* a call of get3 on a Fractal2D: the trait's default
CallFractalGet3(n, at) ==
    /\ fractals[n].size # 0
    /\ fcall' = [op |-> "get3", inst |-> n, size |-> fractals[n].size, at |-> at,
                 out |-> IF DefaultGet3.panic
                         THEN [panic |-> TRUE, why |-> "get3 not implemented for this generator",
                               val |-> 0, oob |-> FALSE]
                         ELSE Value(DefaultGet3.total)]
    /\ UNCHANGED <<fractals, returned, genlog, held, draws, noiseVars, warpVars, erosionVars, utilVars, storageVars, appVars>>

(***************************************************************************)
(* DomainWarp2D.  A coordinate of a size x size grid is an integer in      *)
(* units of 1 / (10 * size): fx = x / size is 10 * x, and 5.2 is           *)
(* 52 * size.  The base and the warp are any implementations of            *)
(* NoiseGenerator::get2: the model draws them from small families of total *)
(* functions with finite values.  warp_strength is in halves and the warp  *)
(* values are even, so the displacement is exact.  The values are small    *)
(* integers, which the cast "as f32" leaves as they are.                   *)
(***************************************************************************)
\* 1.0
One(size) == 10 * size
\* let fx = x as f64 / self.size as f64
Fx(x, size) == 10 * x
\* fx * 3.0
WarpAtNear(f, size) == 3 * f
\* (fx + 5.2) * 3.0
WarpAtFar(f, size) == 3 * (f + 52 * size)

\* The f64 values that are not finite: f64::INFINITY, its negation and
\* f64::NAN, as numbers far outside the finite values the model reaches.
Infinity == Pow2(29)
NaN == 0 - Pow2(30)
IsFinite(v) == v # NaN /\ v # Infinity /\ v # 0 - Infinity

\* self.base.get2(wx, wy): base 1 tells every two points of the unit square
\* apart, base 2 does not (wx * wx + 3 * wy modulo 11, less 5); both return
\* 0.0 at a coordinate that is not finite
BaseKinds == {1, 2}
BaseGet2(b, wx, wy, size) ==
    IF ~IsFinite(wx) \/ ~IsFinite(wy) THEN 0
    ELSE IF b = 1 THEN wx + (One(size) + 1) * wy
    ELSE (((wx % 11) * (wx % 11) + 3 * (wy % 11)) % 11) - 5

\* self.warp.get2(qx, qy): zero, small, large negative, varying, very large
WarpKinds == 0 .. 4
WarpGet2(w, qx, qy, size) ==
    CASE w = 0 -> 0
      [] w = 1 -> 2 * size
      [] w = 2 -> -20 * size
      [] w = 3 -> 2 * (((qx + 2 * qy) % 7) - 3)
      [] w = 4 -> 2000000

\* dx * self.warp_strength, for a finite dx: 0.0 * inf and every product with
\* NaN are NaN
DisplaceUnscaled(d, strength) == d
Displace(d, strength) ==
    IF IsFinite(strength) THEN (d * strength) \div 2
    ELSE IF strength = NaN \/ d = 0 THEN NaN
    ELSE IF (d > 0) = (strength > 0) THEN Infinity ELSE 0 - Infinity

\* fx + dx * self.warp_strength, for a finite fx
Displaced(f, v) == IF IsFinite(v) THEN f + v ELSE v

\* f64::clamp without its lower bound
ClampAbove(v, lo, hi) == IF v = NaN THEN NaN ELSE IF v > hi THEN hi ELSE v
\* f64::clamp: NaN stays NaN
Clamp(v, lo, hi) == IF v = NaN THEN NaN ELSE IF v < lo THEN lo ELSE IF v > hi THEN hi ELSE v

\* the body of the loops of DomainWarp2D::generate for the cell (y, x): the
\* calls of self.warp.get2 and of self.base.get2 in the order they are made,
\* and the value written to map[y][x]
WarpCellRun(self, y, x) ==
    LET size == self.size
        fx == Fx(x, size)
        fy == Fx(y, size)
        near == <<WarpAtNear(fx, size), WarpAtNear(fy, size)>>
        far == <<WarpAtFar(fx, size), WarpAtFar(fy, size)>>
        dx == WarpGet2(self.warp, near[1], near[2], size)
        dy == WarpGet2(self.warp, far[1], far[2], size)
        warped_x == Clamp(Displaced(fx, Displace(dx, self.warp_strength)), 0, One(size))
        warped_y == Clamp(Displaced(fy, Displace(dy, self.warp_strength)), 0, One(size))
    IN [warp_at |-> <<near, far>>, base_at |-> <<<<warped_x, warped_y>>>>,
        out |-> BaseGet2(self.base, warped_x, warped_y, size)]
WarpCell(self, y, x) == WarpCellRun(self, y, x).out

\* DomainWarp2D::generate
WarpGrid(self) ==
    Table([y \in 0 .. (self.size - 1) |->
             Table([x \in 0 .. (self.size - 1) |-> WarpCell(self, y, x)])])
\* the calls DomainWarp2D::generate makes, cell by cell
WarpCalls(self) ==
    Table([y \in 0 .. (self.size - 1) |->
             Table([x \in 0 .. (self.size - 1) |->
                      [warp_at |-> WarpCellRun(self, y, x).warp_at,
                       base_at |-> WarpCellRun(self, y, x).base_at]])])

\* g[y][x] = base.get2(fx, fy) as f32, for fx = x / size, fy = y / size
DirectGrid(b, size) ==
    Table([y \in 0 .. (size - 1) |->
             Table([x \in 0 .. (size - 1) |-> BaseGet2(b, Fx(x, size), Fx(y, size), size)])])

NoWarped ==
    [size |-> -1, warp_strength |-> 0, base |-> 0, warp |-> 0, grid |-> <<>>,
     calls |-> <<>>]
NoDirect == [size |-> -1, base |-> 0, grid |-> <<>>]
WarpSizes == 0 .. MaxWarpSize
Strengths == 0 .. MaxStrength
\* a negative warp_strength, and the values of f64 that are not finite
OtherStrengths == {0 - 3, Infinity, NaN}

\* The runs of DomainWarp2D::generate for all fields the model draws from,
\* computed once.
WarpRuns ==
    Table([a \in WarpSizes \X (Strengths \cup OtherStrengths) \X BaseKinds \X WarpKinds |->
             LET self == [size |-> a[1], warp_strength |-> a[2], base |-> a[3], warp |-> a[4]]
             IN [grid |-> WarpGrid(self), calls |-> WarpCalls(self)]])

\* DomainWarp2D { base, warp, size, warp_strength }.generate()
WarpGenerate(size, strength, b, w) ==
    /\ LET run == WarpRuns[<<size, strength, b, w>>]
       IN warped' = [size |-> size, warp_strength |-> strength, base |-> b, warp |-> w,
                     grid |-> run.grid, calls |-> run.calls]
    /\ UNCHANGED <<direct, noiseVars, fractalVars, erosionVars, utilVars, storageVars, appVars>>

\* the caller's loop over the grid without warping
SampleDirect(size, b) ==
    /\ direct' = [size |-> size, base |-> b, grid |-> DirectGrid(b, size)]
    /\ UNCHANGED <<warped, noiseVars, fractalVars, erosionVars, utilVars, storageVars, appVars>>

(***************************************************************************)
(* ThermalErosion2D.  Heights and the talus angle are integers in units of *)
(* 1/Unit; the grids the model erodes hold multiples of Unit / 2, so that  *)
(* the halving of an amount is exact in every pass.                        *)
(***************************************************************************)
\* let h = map.len(); let w = map[0].len()
Rows(map) == Cardinality(DOMAIN map)
Cols(map) == Cardinality(DOMAIN map[0])

\* &[(0, 1), (1, 0), (0, -1), (-1, 0)], each a (dy, dx): right, down, left, up
ScanOrderUpFirst == <<<<-1, 0>>, <<1, 0>>, <<0, -1>>, <<0, 1>>>>
ScanOrder == <<<<0, 1>>, <<1, 0>>, <<0, -1>>, <<-1, 0>>>>

\* ny >= 0 && ny < h as isize && nx >= 0 && nx < w as isize
InBounds(map, ny, nx) == ny >= 0 /\ ny < Rows(map) /\ nx >= 0 /\ nx < Cols(map)

\* the body of the loop over the neighbours, on st = [map, y, x, max_diff, max_n]
ScanStep(st, d) ==
    LET ny == st.y + d[1]
        nx == st.x + d[2]
    IN IF InBounds(st.map, ny, nx)
       THEN LET diff == st.map[st.y][st.x] - st.map[ny][nx]
            IN IF diff > st.max_diff
               THEN [st EXCEPT !.max_diff = diff, !.max_n = <<ny, nx>>]
               ELSE st
       ELSE st

\* let mut max_diff = 0.0; let mut max_n = (0, 0); for &(dy, dx) in .. { .. }
Steepest(map, y, x) ==
    FoldSeq(ScanStep, [map |-> map, y |-> y, x |-> x, max_diff |-> 0, max_n |-> <<0, 0>>],
            ScanOrder, 1, Len(ScanOrder))

\* if max_diff > self.talus_angle
ReachesTalus(max_diff, talus_angle) == max_diff >= talus_angle
Exceeds(max_diff, talus_angle) == max_diff > talus_angle

\* let amount = (max_diff - self.talus_angle) * 0.5
AmountFull(max_diff, talus_angle) == max_diff - talus_angle
Amount(max_diff, talus_angle) == (max_diff - talus_angle) \div 2

\* delta[y][x] -= amount
Give(delta, c, amount) == [delta EXCEPT ![c[1]][c[2]] = @ - amount]
\* delta[max_n.0][max_n.1] += amount
ReceiveNothing(delta, c, amount) == delta
Receive(delta, c, amount) == [delta EXCEPT ![c[1]][c[2]] = @ + amount]

\* a loop body that writes the transfer to the grid at once
CellStepInPlace(st, c) ==
    LET s == Steepest(st.map, c[1], c[2])
    IN IF Exceeds(s.max_diff, st.talus_angle)
       THEN LET amount == Amount(s.max_diff, st.talus_angle)
            IN [st EXCEPT !.map = Receive(Give(@, c, amount), s.max_n, amount),
                          !.delta = Receive(Give(@, c, amount), s.max_n, amount),
                          !.moves = Append(@, [from |-> c, to |-> s.max_n,
                                               amount |-> amount])]
       ELSE st
\* the body of the loops over the cells, on st = [map, talus_angle, delta, moves];
\* moves records the transfers of the pass in the order they were made
CellStep(st, c) ==
    LET s == Steepest(st.map, c[1], c[2])
    IN IF Exceeds(s.max_diff, st.talus_angle)
       THEN LET amount == Amount(s.max_diff, st.talus_angle)
            IN [st EXCEPT !.delta = Receive(Give(@, c, amount), s.max_n, amount),
                          !.moves = Append(@, [from |-> c, to |-> s.max_n,
                                               amount |-> amount])]
       ELSE st

\* for y in 0..h { for x in 0..w
CellsOf(map) ==
    Table([k \in 1 .. Rows(map) * Cols(map) |->
             <<(k - 1) \div Cols(map), (k - 1) % Cols(map)>>])

\* vec![vec![0.0f32; w]; h]
ZeroGrid(h, w) == Table([y \in 0 .. (h - 1) |-> Table([x \in 0 .. (w - 1) |-> 0])])

\* map[y][x] += delta[y][x]
ApplyDelta(map, delta) ==
    Table([y \in DOMAIN map |-> Table([x \in DOMAIN map[y] |-> map[y][x] + delta[y][x]])])

\* one pass of the loop of apply with the loop body run on the cells in the
\* order given: the new map, the delta buffer and the transfers
PassOver(map, talus_angle, cells) ==
    LET st == FoldSeq(CellStep,
                      [map |-> map, talus_angle |-> talus_angle,
                       delta |-> ZeroGrid(Rows(map), Cols(map)), moves |-> <<>>],
                      cells, 1, Len(cells))
    IN [map |-> ApplyDelta(map, st.delta), delta |-> st.delta, moves |-> st.moves]
\* one pass of the loop of apply: the cells in row-major order
Pass(map, talus_angle) == PassOver(map, talus_angle, CellsOf(map))

\* The grids eroded: one peak on a flat grid, a cross of a centre and its four
\* neighbours, every small grid of two heights, a single cell, and the ramp of
\* the crate's determinism test.
PeakGrid(h, w, py, px, p) ==
    Table([y \in 0 .. (h - 1) |->
             Table([x \in 0 .. (w - 1) |-> IF y = py /\ x = px THEN p ELSE 0])])
PeakGrids ==
    {PeakGrid(3, 3, py, px, p * Unit) : py \in 0 .. 2, px \in 0 .. 2, p \in 1 .. MaxPeak}
    \cup {PeakGrid(1, 2, 0, px, p * Unit) : px \in 0 .. 1, p \in 1 .. MaxPeak}
CrossGrid(up, down, left, right) ==
    Table([y \in 0 .. 2 |->
             Table([x \in 0 .. 2 |->
                      CASE <<y, x>> = <<1, 1>> -> 2 * Unit
                        [] <<y, x>> = <<0, 1>> -> up
                        [] <<y, x>> = <<2, 1>> -> down
                        [] <<y, x>> = <<1, 0>> -> left
                        [] <<y, x>> = <<1, 2>> -> right
                        [] OTHER -> 0])])
CrossGrids ==
    {CrossGrid(u, d, l, r) : u \in {0, Unit}, d \in {0, Unit}, l \in {0, Unit}, r \in {0, Unit}}
SmallGrids ==
    {Table([y \in 0 .. 1 |-> Table([x \in 0 .. 1 |-> f[2 * y + x]])]) :
        f \in [0 .. 3 -> {0, Unit}]}
    \cup {ZeroGrid(1, 1)}
\* (0..5).map(|i| vec![i as f32; 5])
RampGrid == Table([y \in 0 .. 4 |-> Table([x \in 0 .. 4 |-> y * Unit])])
Grids == PeakGrids \cup CrossGrids \cup SmallGrids \cup {RampGrid}
TalusAngles == {-Unit, 0, Unit \div 2, Unit}

NoErosion ==
    [start |-> <<>>, before |-> <<>>, map |-> <<>>, iterations |-> -1, talus_angle |-> 0,
     pass |-> 0, delta |-> <<>>, moves |-> <<>>, panic |-> FALSE]

\* ThermalErosion2D::new(iterations, talus_angle), and apply entered on a grid
StartErosion(n, grid, iterations, talus_angle) ==
    /\ erosion[n].iterations = -1
    /\ \A m \in Insts : m < n => erosion[m].iterations # -1
    /\ erosion' = [erosion EXCEPT ![n] =
                     [start |-> grid, before |-> grid, map |-> grid,
                      iterations |-> iterations, talus_angle |-> talus_angle, pass |-> 0,
                      delta |-> <<>>, moves |-> <<>>, panic |-> FALSE]]
    /\ UNCHANGED <<noiseVars, fractalVars, warpVars, utilVars, storageVars, appVars>>

\* apply entered on a grid without rows: let w = map[0].len() panics with
\* 'index out of bounds' before the first pass, the grid is as it was
ApplyPanics(n, iterations, talus_angle) ==
    /\ erosion[n].iterations = -1
    /\ \A m \in Insts : m < n => erosion[m].iterations # -1
    /\ erosion' = [erosion EXCEPT ![n] =
                     [NoErosion EXCEPT !.iterations = iterations,
                                       !.talus_angle = talus_angle, !.panic = TRUE]]
    /\ UNCHANGED <<noiseVars, fractalVars, warpVars, utilVars, storageVars, appVars>>

\* one iteration of for _ in 0..self.iterations
ErosionPass(n) ==
    /\ erosion[n].iterations # -1
    /\ ~erosion[n].panic
    /\ erosion[n].pass < erosion[n].iterations
    /\ LET e == erosion[n]
           r == Pass(e.map, e.talus_angle)
       IN erosion' = [erosion EXCEPT ![n] =
                        [e EXCEPT !.before = e.map, !.map = r.map, !.pass = @ + 1,
                                  !.delta = r.delta, !.moves = r.moves]]
    /\ UNCHANGED <<noiseVars, fractalVars, warpVars, utilVars, storageVars, appVars>>

(***************************************************************************)
(* utils: flatten2, normalize2 and the colour ramp.                        *)
(*                                                                         *)
(* Heights handed to normalize2 are integers in units of 1/Fine, so that   *)
(* the epsilon floor 0.001 is the integer Epsilon.  A normalised height is *)
(* an integer in units of 1/Norm rounded down, Norm itself standing for    *)
(* exactly 1.0.  Heights handed to the colour ramp are in hundredths.      *)
(***************************************************************************)
Fine == 10000
UtilSizes == {0, 1, 2}
UtilHeights == {0 - Fine, 0, 6, Fine}
UtilGrids ==
    UNION {{Table([y \in 0 .. n - 1 |-> Table([x \in 0 .. n - 1 |-> f[y * n + x]])]) :
               f \in [0 .. n * n - 1 -> UtilHeights]} : n \in UtilSizes}

RowLen(row) == Cardinality(DOMAIN row)
\* number of elements the iterator has yielded before row y
RECURSIVE Offset(_, _)
Offset(map, y) == IF y = 0 THEN 0 ELSE Offset(map, y - 1) + RowLen(map[y - 1])
\* a flattening that walks the columns first
Flatten2ColumnMajor(map) ==
    LET n == RowLen(map)
    IN Table([i \in 0 .. n * n - 1 |-> map[i % n][i \div n]])
\* map.iter().flat_map(|row| row.iter().cloned()).collect()
Flatten2(map) ==
    LET total == Offset(map, RowLen(map))
    IN Table([i \in 0 .. total - 1 |->
                LET y == CHOOSE r \in DOMAIN map : Offset(map, r) <= i /\ i < Offset(map, r + 1)
                IN map[y][i - Offset(map, y)]])

NoUtil == [op |-> "none", arg |-> <<>>, after |-> <<>>, out |-> <<>>]

\* let flat = flatten2(&grid): the grid is borrowed, the vector is new
CallFlatten2(grid) ==
    /\ util' = [op |-> "flatten2", arg |-> grid, after |-> grid, out |-> Flatten2(grid)]
    /\ UNCHANGED <<noiseVars, fractalVars, warpVars, erosionVars, storageVars, appVars>>

Norm == 32
Epsilon == 10
GammaNum == 6
GammaDen == 5
\* the result of a floating-point operation that is NaN or infinite
NotFinite == 0 - 1

RECURSIVE Power(_, _)
Power(b, e) == IF e = 0 THEN 1 ELSE b * Power(b, e - 1)
Max2(a, b) == IF a >= b THEN a ELSE b
Values(map) == {map[y][x] : y \in DOMAIN map, x \in DOMAIN map[0]}
\* min = min.min(val) over all cells, from f32::MAX
MinOf(map) == CHOOSE v \in Values(map) : \A w \in Values(map) : v <= w
\* max = max.max(val) over all cells, from f32::MIN
MaxOf(map) == CHOOSE v \in Values(map) : \A w \in Values(map) : v >= w
\* a range with no floor under it
RangeNoFloor(min, max) == max - min
\* (max - min).max(0.001)
Range(min, max) == Max2(max - min, Epsilon)
\* a normalisation onto half of the range
QuotientHalved(val, min, range) ==
    IF range = 0 THEN NotFinite ELSE ((val - min) * Norm) \div (2 * range)
\* (*val - min) / range, in units of 1/Norm; a division by zero is NaN or infinite
Quotient(val, min, range) ==
    IF range = 0 THEN NotFinite ELSE ((val - min) * Norm) \div range
\* val.powf(GAMMA_CORRECTION): the largest r with (r / Norm)^5 <= (k / Norm)^6;
\* NaN stays NaN, and a negative base gives NaN
GammaOf(k) ==
    CHOOSE r \in 0 .. Norm :
        /\ Power(r, GammaDen) * Norm <= Power(k, GammaNum)
        /\ (r = Norm \/ Power(r + 1, GammaDen) * Norm > Power(k, GammaNum))
GammaTable == Table([k \in 0 .. Norm |-> GammaOf(k)])
Gamma(k) == IF k < 0 THEN NotFinite ELSE GammaTable[k]
Normalize2(map) ==
    LET min == MinOf(map)
        range == Range(min, MaxOf(map))
    IN Table([y \in DOMAIN map |->
          Table([x \in DOMAIN map[y] |-> Gamma(Quotient(map[y][x], min, range))])])

\* normalize2(&mut grid): the grid is rewritten in place
CallNormalize2(grid) ==
    /\ util' = [op |-> "normalize2", arg |-> grid, after |-> Normalize2(grid), out |-> <<>>]
    /\ UNCHANGED <<noiseVars, fractalVars, warpVars, erosionVars, storageVars, appVars>>

Percent == 100
WATER_THRESHOLD == 30
SAND_THRESHOLD == 40
GRASS_THRESHOLD == 60
ROCK_THRESHOLD == 80
U8Max == 255
RgbHeights == 0 .. Percent

\* f as u8 for f = num / den with den > 0: truncated towards zero and saturated
AsU8(num, den) ==
    IF num <= 0 THEN 0
    ELSE IF num \div den > U8Max THEN U8Max
    ELSE num \div den
\* lerp_color(a, b, t) with t = tn / td; the arithmetic is exact here, where the
\* f32 arithmetic of the code is rounded
LerpColor(a, b, tn, td) ==
    [i \in 1 .. 3 |-> AsU8(a[i] * td + (b[i] - a[i]) * tn, td)]
\* the five arms of the match: the band, the position t = tn / td computed in
\* that arm, and the two colours interpolated between
HeightToRgb(x) ==
    IF x < WATER_THRESHOLD THEN
        [band |-> "water", tn |-> x, td |-> WATER_THRESHOLD,
         rgb |-> LerpColor(<<0, 0, 128>>, <<0, 128, 255>>, x, WATER_THRESHOLD)]
    ELSE IF x < SAND_THRESHOLD THEN
        [band |-> "sand", tn |-> x - WATER_THRESHOLD, td |-> SAND_THRESHOLD - WATER_THRESHOLD,
         rgb |-> LerpColor(<<194, 178, 128>>, <<220, 200, 160>>,
                           x - WATER_THRESHOLD, SAND_THRESHOLD - WATER_THRESHOLD)]
    ELSE IF x < GRASS_THRESHOLD THEN
        [band |-> "grass", tn |-> x - SAND_THRESHOLD, td |-> GRASS_THRESHOLD - SAND_THRESHOLD,
         rgb |-> LerpColor(<<34, 139, 34>>, <<50, 205, 50>>,
                           x - SAND_THRESHOLD, GRASS_THRESHOLD - SAND_THRESHOLD)]
    ELSE IF x < ROCK_THRESHOLD THEN
        [band |-> "rock", tn |-> x - SAND_THRESHOLD, td |-> ROCK_THRESHOLD - GRASS_THRESHOLD,
         rgb |-> LerpColor(<<128, 128, 128>>, <<192, 192, 192>>,
                           x - SAND_THRESHOLD, ROCK_THRESHOLD - GRASS_THRESHOLD)]
    ELSE
        [band |-> "snow", tn |-> x - ROCK_THRESHOLD, td |-> Percent - ROCK_THRESHOLD,
         rgb |-> LerpColor(<<220, 220, 220>>, <<255, 255, 255>>,
                           x - ROCK_THRESHOLD, Percent - ROCK_THRESHOLD)]

\* let [r, g, b] = height_to_rgb(h)
CallHeightToRgb(h) ==
    /\ util' = [op |-> "height_to_rgb", arg |-> h, after |-> h, out |-> HeightToRgb(h)]
    /\ UNCHANGED <<noiseVars, fractalVars, warpVars, erosionVars, storageVars, appVars>>

(***************************************************************************)
(* storage: the MongoDB collection behind Storage2D.                       *)
(*                                                                         *)
(* The collection is the sequence of its documents.  The index that init   *)
(* creates is built with options None, so it is not unique and the         *)
(* collection may hold several documents with the same key.  find_one and  *)
(* delete_one act on one matching document; which one is the server's      *)
(* choice (natural order), so the model leaves it open.  Every driver call *)
(* may fail (ok = FALSE), e.g. because the server cannot be reached.       *)
(***************************************************************************)
Names == {"a", "b"}
DocSeeds == {7, 42}
HeightMaps == {<<0>>, <<Norm>>}
Docs == [name : Names, seed : DocSeeds, dimensions : {2}, height_map : HeightMaps]
NoDoc == [name |-> "", seed |-> 0, dimensions |-> 0, height_map |-> <<>>]
\* a call: its arguments, whether it returned Ok, the document it found or
\* deleted, and the document of the create that succeeded just before it
NoSCall ==
    [op |-> "none", doc |-> NoDoc, seed |-> 0, ok |-> TRUE, found |-> NoDoc, since |-> NoDoc]

\* the documents a filter selects, by position
\* doc! { "name": &doc_obj.name, "seed": doc_obj.seed, "dimensions": .. }
MatchKey(c, d) ==
    {i \in 1 .. Len(c) :
        c[i].name = d.name /\ c[i].seed = d.seed /\ c[i].dimensions = d.dimensions}
\* doc! { "seed": seed, "dimensions": 2i32 }
MatchSeed(c, seed) == {i \in 1 .. Len(c) : c[i].seed = seed /\ c[i].dimensions = 2}
\* doc! { "name": name, "dimensions": 2i32 }
MatchName(c, name) == {i \in 1 .. Len(c) : c[i].name = name /\ c[i].dimensions = 2}
\* the position delete_one or find_one acts on: any match, 0 when there is none
Picks(matches) == IF matches = {} THEN {0} ELSE matches
Remove(c, i) == IF i = 0 THEN c ELSE SubSeq(c, 1, i - 1) \o SubSeq(c, i + 1, Len(c))
At(c, i) == IF i = 0 THEN NoDoc ELSE c[i]

\* Storage2D::create: the result of the delete is dropped, then the insert
Create(doc_obj, delete_ok, insert_ok, i) ==
    /\ i \in Picks(MatchKey(col, doc_obj))
    /\ Len(col) < MaxDocs \/ (delete_ok /\ i # 0) \/ ~insert_ok
    /\ LET deleted == IF delete_ok THEN Remove(col, i) ELSE col
       IN col' = IF insert_ok THEN Append(deleted, doc_obj) ELSE deleted
    /\ created' = IF insert_ok THEN doc_obj ELSE NoDoc
    /\ scall' = [NoSCall EXCEPT !.op = "create", !.doc = doc_obj, !.seed = doc_obj.seed,
                                !.ok = insert_ok, !.since = created]
    /\ UNCHANGED <<inflight, noiseVars, fractalVars, warpVars, erosionVars,
                 utilVars, appVars>>

\* Storage2D::read_by_seed: Err, Ok(None) or Ok(Some(document))
ReadBySeed(seed, ok, i) ==
    /\ i \in Picks(MatchSeed(col, seed))
    /\ scall' = [NoSCall EXCEPT !.op = "read_by_seed", !.seed = seed, !.ok = ok,
                                !.found = IF ok THEN At(col, i) ELSE NoDoc,
                                !.since = created]
    /\ UNCHANGED <<col, created, inflight, noiseVars, fractalVars, warpVars, erosionVars,
                 utilVars, appVars>>

\* Storage2D::delete_by_seed
DeleteBySeed(seed, ok, i) ==
    /\ i \in Picks(MatchSeed(col, seed))
    /\ col' = IF ok THEN Remove(col, i) ELSE col
    /\ scall' = [NoSCall EXCEPT !.op = "delete_by_seed", !.seed = seed, !.ok = ok,
                                !.found = IF ok THEN At(col, i) ELSE NoDoc,
                                !.since = created]
    /\ created' = NoDoc
    /\ UNCHANGED <<inflight, noiseVars, fractalVars, warpVars, erosionVars,
                 utilVars, appVars>>

\* Storage2D::create of a second task, up to the await of its delete_one: the
\* calls of other tasks run between this and its insert_one
CreateDeleteOne(doc_obj, delete_ok, i) ==
    /\ inflight = NoDoc
    /\ i \in Picks(MatchKey(col, doc_obj))
    /\ col' = IF delete_ok THEN Remove(col, i) ELSE col
    /\ inflight' = doc_obj
    /\ created' = NoDoc
    /\ UNCHANGED <<scall, noiseVars, fractalVars, warpVars, erosionVars,
                 utilVars, appVars>>

\* the rest of that create: insert_one and the result
CreateInsertOne(insert_ok) ==
    /\ inflight # NoDoc
    /\ Len(col) < MaxDocs \/ ~insert_ok
    /\ col' = IF insert_ok THEN Append(col, inflight) ELSE col
    /\ created' = IF insert_ok THEN inflight ELSE NoDoc
    /\ scall' = [NoSCall EXCEPT !.op = "create", !.doc = inflight, !.seed = inflight.seed,
                                !.ok = insert_ok, !.since = created]
    /\ inflight' = NoDoc
    /\ UNCHANGED <<noiseVars, fractalVars, warpVars, erosionVars,
                 utilVars, appVars>>

(***************************************************************************)
(* app: TerrainApp and the handlers of its buttons.                        *)
(*                                                                         *)
(* A generated grid is kept by what it was generated from (its size and    *)
(* the settings), not cell by cell; a height map or an image buffer is     *)
(* kept by its length, its encoding and the grid it was made of.  Status   *)
(* messages are kept without their formatted tail (the error text, the     *)
(* duration, the name).                                                    *)
(*                                                                         *)
(* The sections "Domain warping" and "Erosion" are egui CollapsingHeaders  *)
(* built with default_open(true): egui keeps whether each is open, the     *)
(* user folds and unfolds it with a click on its title, and show() runs    *)
(* the body closure only while the section is open.  warping_open and      *)
(* erosion_open are that state.                                            *)
(***************************************************************************)
NoiseTypes == {"Fractal2D", "Perlin2D", "Simplex2D"}
\* const MIN_EXP: u32 = 6
MinExp == 6
SaveNames == {" ", "a"}
\* the default seed and another one
AppSeeds == {2025, 7}
None == [some |-> FALSE]
Some(v) == [some |-> TRUE, val |-> v]
\* (1 << self.exp) + 1
SizeOf(exp) == Pow2(exp) + 1
\* the settings that are stored with a terrain as TerrainParams
DefaultParams ==
    [frequency |-> 10, persistence |-> 5, octaves |-> 4, roughness |-> 10,
     erosion_iters |-> 5, talus_angle |-> 10, warp_strength |-> 5]

\* impl Default for TerrainApp, before refresh_name_list()
DefaultApp ==
    [started |-> TRUE, noise_type |-> "Fractal2D", exp |-> 7, seed |-> 2025,
     params |-> DefaultParams, enable_erosion |-> TRUE, enable_warping |-> FALSE,
     terrain_texture |-> None, last_duration |-> None, status_message |-> "",
     last_flat |-> None, last_size |-> 129, last_grid |-> None,
     save_name |-> "", load_list |-> <<>>, selected_name |-> None,
     warping_open |-> TRUE, erosion_open |-> TRUE, outcome |-> "none"]
NoApp == [DefaultApp EXCEPT !.started = FALSE]

\* a status report that also drops the terrain in memory when a read fails
SetStatusAndDropTerrain(a, outcome, message) ==
    IF outcome \in {"read_error", "not_found"}
    THEN [a EXCEPT !.status_message = message, !.outcome = outcome,
                   !.last_grid = None, !.last_flat = None, !.terrain_texture = None]
    ELSE [a EXCEPT !.status_message = message, !.outcome = outcome]
\* self.status_message = ..; outcome names the arm that was taken
SetStatus(a, outcome, message) ==
    [a EXCEPT !.status_message = message, !.outcome = outcome]

\* the names of the documents a find({dimensions: 2}) cursor yields
RECURSIVE NamesOf(_)
NamesOf(c) ==
    IF c = <<>> THEN <<>>
    ELSE (IF Head(c).dimensions = 2 THEN <<Head(c).name>> ELSE <<>>) \o NamesOf(Tail(c))

\* TerrainApp::refresh_name_list on the collection c
RefreshNameList(a, c, init_ok, list_ok) ==
    IF ~init_ok THEN SetStatus(a, "init_error", "DB init error")
    ELSE IF ~list_ok THEN SetStatus(a, "list_error", "List error")
    ELSE SetStatus([a EXCEPT !.load_list = NamesOf(c)], "listed", "Loaded name list")

\* TerrainApp::default(): the fields, then the name list is loaded
AppStart(init_ok, list_ok) ==
    /\ ~app.started
    /\ app' = RefreshNameList(DefaultApp, col, init_ok, list_ok)
    /\ UNCHANGED <<noiseVars, fractalVars, warpVars, erosionVars, utilVars, storageVars>>

\* what every frame does before it looks at the buttons: the body of the
\* domain-warping section switches warping off for Fractal2D, the body of the
\* erosion section switches erosion off for the other noise types
Forced(a) ==
    LET w == IF a.warping_open /\ a.noise_type = "Fractal2D"
             THEN [a EXCEPT !.enable_warping = FALSE] ELSE a
    IN IF w.erosion_open /\ w.noise_type # "Fractal2D"
       THEN [w EXCEPT !.enable_erosion = FALSE] ELSE w

\* the text field "Terrain Name"
EditSaveName(name) ==
    /\ app.started
    /\ app' = Forced([app EXCEPT !.save_name = name])
    /\ UNCHANGED <<noiseVars, fractalVars, warpVars, erosionVars, utilVars, storageVars>>

\* the ComboBox "Load terrain", filled from load_list
SelectName(k) ==
    /\ app.started
    /\ k \in 1 .. Len(app.load_list)
    /\ app' = Forced([app EXCEPT !.selected_name = Some(app.load_list[k])])
    /\ UNCHANGED <<noiseVars, fractalVars, warpVars, erosionVars, utilVars, storageVars>>

\* the grid "Generate Terrain" computes: named by the settings it is computed from
TerrainOf(a) ==
    [noise_type |-> a.noise_type, size |-> SizeOf(a.exp), seed |-> a.seed,
     params |-> a.params, eroded |-> a.enable_erosion, warped |-> a.enable_warping]

\* the button "Generate Terrain"
AppGenerate ==
    /\ app.started
    /\ LET a == Forced(app)
           size == SizeOf(a.exp)
           grid == TerrainOf(a)
           img == [len |-> 3 * size * size, enc |-> "rgb", of |-> grid]
       IN app' = SetStatus([a EXCEPT !.last_grid = Some(grid), !.last_flat = Some(img),
                                     !.last_size = size,
                                     !.terrain_texture = Some([size |-> size, of |-> grid]),
                                     !.last_duration = Some("ms")],
                           "generated", "Generated")
    /\ UNCHANGED <<noiseVars, fractalVars, warpVars, erosionVars, utilVars, storageVars>>

\* self.save_name.trim()
Trim(name) == IF name = " " THEN "" ELSE name
\* format!("{:?}", self.noise_type).to_lowercase()
Lower(t) ==
    CASE t = "Fractal2D" -> "fractal2d"
      [] t = "Perlin2D" -> "perlin2d"
      [] t = "Simplex2D" -> "simplex2d"
\* the TerrainDoc2D that "Save to Database" builds
DocOf(a) ==
    [name |-> a.save_name, seed |-> a.seed,
     params |-> [noise_type |-> Lower(a.noise_type), values |-> a.params],
     height_map |-> [len |-> a.last_grid.val.size * a.last_grid.val.size, enc |-> "f32",
                     of |-> a.last_grid.val],
     dimensions |-> 2]

\* the button "Save to Database"
SaveToDatabase(init_ok, delete_ok, insert_ok, i, list_init_ok, list_ok) ==
    /\ app.started
    /\ LET a == Forced(app)
       IN IF Trim(a.save_name) = "" THEN
              /\ app' = SetStatus(a, "no_name", "Terrain is not stored \nTerrain name is required")
              /\ col' = col
          ELSE IF ~a.last_grid.some THEN
              /\ app' = SetStatus(a, "no_grid", "No terrain to save or name is empty")
              /\ col' = col
          ELSE IF ~init_ok THEN
              /\ app' = SetStatus(a, "save_failed", "Failed to save to MongoDB")
              /\ col' = col
          ELSE
              /\ i \in Picks(MatchKey(col, DocOf(a)))
              /\ Len(col) < MaxDocs \/ (delete_ok /\ i # 0) \/ ~insert_ok
              /\ LET deleted == IF delete_ok THEN Remove(col, i) ELSE col
                 IN IF insert_ok THEN
                        /\ col' = Append(deleted, DocOf(a))
                        /\ app' = RefreshNameList(SetStatus(a, "saved", "Saved to MongoDB"),
                                                  col', list_init_ok, list_ok)
                    ELSE
                        /\ col' = deleted
                        /\ app' = SetStatus(a, "save_failed", "Failed to save to MongoDB")
    /\ UNCHANGED <<scall, created, inflight, noiseVars, fractalVars, warpVars, erosionVars, utilVars>>

\* the button "Refresh DB List"
RefreshDbList(init_ok, list_ok) ==
    /\ app.started
    /\ app' = RefreshNameList(Forced(app), col, init_ok, list_ok)
    /\ UNCHANGED <<noiseVars, fractalVars, warpVars, erosionVars, utilVars, storageVars>>

\* (len as f64).sqrt() as usize
Isqrt(len) == CHOOSE r \in 0 .. len : r * r <= len /\ len < (r + 1) * (r + 1)
\* match params.noise_type.as_str() { .. _ => self.noise_type }
NoiseTypeOf(name, current) ==
    CASE name = "fractal2d" -> "Fractal2D"
      [] name = "perlin2d" -> "Perlin2D"
      [] name = "simplex2d" -> "Simplex2D"
      [] OTHER -> current
\* match size { 129 => 7, 257 => 8, 513 => 9, _ => self.exp }
ExpOf(size, current) ==
    CASE size = 129 -> 7
      [] size = 257 -> 8
      [] size = 513 -> 9
      [] OTHER -> current
\* the arm Ok(Some(doc)) of "Load Selected"
Loaded(a, doc) ==
    LET len == doc.height_map.len
        size == Isqrt(len)
        noise_type == NoiseTypeOf(doc.params.noise_type, a.noise_type)
    IN IF size * size # len THEN [a EXCEPT !.outcome = "panic"]
       ELSE SetStatus([a EXCEPT !.last_size = size,
                                !.last_flat = Some([len |-> len, enc |-> "gray",
                                                    of |-> doc.height_map.of]),
                                !.terrain_texture =
                                    Some([size |-> size, of |-> doc.height_map.of]),
                                !.seed = doc.seed,
                                !.save_name = doc.name,
                                !.exp = ExpOf(size, a.exp),
                                !.noise_type = noise_type,
                                !.params = doc.params.values,
                                !.enable_erosion = (noise_type = "Fractal2D"),
                                !.enable_warping = (noise_type # "Fractal2D")],
                      "loaded", "Loaded")

\* another client of the database deletes a document (delete_by_seed)
OtherClientDeletes(i) ==
    /\ i \in 1 .. Len(col)
    /\ col' = Remove(col, i)
    /\ UNCHANGED <<scall, created, inflight, app, noiseVars, fractalVars, warpVars, erosionVars, utilVars>>

\* the button "Load Selected"
LoadSelected(init_ok, read_ok, i) ==
    /\ app.started
    /\ LET a == Forced(app)
       IN IF ~a.selected_name.some THEN
              /\ i = 0
              /\ app' = SetStatus(a, "none_selected", "No terrain selected")
          ELSE IF ~init_ok THEN
              /\ i = 0
              /\ app' = SetStatus(a, "init_error", "DB init error")
          ELSE IF ~read_ok THEN
              /\ i = 0
              /\ app' = SetStatus(a, "read_error", "Read error")
          ELSE
              /\ i \in Picks(MatchName(col, a.selected_name.val))
              /\ app' = IF i = 0 THEN SetStatus(a, "not_found", "Name not found")
                        ELSE Loaded(a, col[i])
    /\ UNCHANGED <<noiseVars, fractalVars, warpVars, erosionVars, utilVars, storageVars>>

\* the ComboBox of the noise type
SelectNoiseType(t) ==
    /\ app.started
    /\ app' = Forced([app EXCEPT !.noise_type = t])
    /\ UNCHANGED <<noiseVars, fractalVars, warpVars, erosionVars, utilVars, storageVars>>

\* the checkbox "Apply Erosion", drawn enabled for Fractal2D only
ToggleErosion ==
    /\ app.started
    /\ app.erosion_open
    /\ app.noise_type = "Fractal2D"
    /\ app' = Forced([app EXCEPT !.enable_erosion = ~@])
    /\ UNCHANGED <<noiseVars, fractalVars, warpVars, erosionVars, utilVars, storageVars>>

\* the checkbox "Enable Domain Warping", drawn disabled for Fractal2D
ToggleWarping ==
    /\ app.started
    /\ app.warping_open
    /\ app.noise_type # "Fractal2D"
    /\ app' = Forced([app EXCEPT !.enable_warping = ~@])
    /\ UNCHANGED <<noiseVars, fractalVars, warpVars, erosionVars, utilVars, storageVars>>

\* a click on the title of a section: an open section runs its body a last
\* time and is folded, a folded one is unfolded and runs its body
ToggleHeader(section) ==
    /\ app.started
    /\ app' = IF section = "warping"
              THEN IF app.warping_open THEN [Forced(app) EXCEPT !.warping_open = FALSE]
                   ELSE Forced([app EXCEPT !.warping_open = TRUE])
              ELSE IF app.erosion_open THEN [Forced(app) EXCEPT !.erosion_open = FALSE]
                   ELSE Forced([app EXCEPT !.erosion_open = TRUE])
    /\ UNCHANGED <<noiseVars, fractalVars, warpVars, erosionVars, utilVars, storageVars>>

\* the resolution slider: size (first line of update) and prev_size are both
\* computed from self.exp before the slider writes it
SetExp(e) ==
    /\ app.started
    /\ LET size == SizeOf(app.exp)
           prev_size == SizeOf(app.exp)
           a == [app EXCEPT !.exp = e]
       IN app' = Forced(IF prev_size # size
                        THEN SetStatus([a EXCEPT !.terrain_texture = None, !.last_flat = None],
                                       "reset", "Texture reset due to size change")
                        ELSE a)
    /\ UNCHANGED <<noiseVars, fractalVars, warpVars, erosionVars, utilVars, storageVars>>

\* the DragValue of the seed
EditSeed(seed) ==
    /\ app.started
    /\ app' = Forced([app EXCEPT !.seed = seed])
    /\ UNCHANGED <<noiseVars, fractalVars, warpVars, erosionVars, utilVars, storageVars>>

\* the button "Save as PNG": image::save_buffer(.., Rgb8).unwrap() on the
\* buffer and last_size, once the file dialog returned a path
SaveAsPng(path_chosen) ==
    /\ app.started
    /\ LET a == Forced(app)
       IN app' = IF ~a.last_flat.some \/ ~path_chosen THEN a
                 ELSE IF a.last_flat.val.len # 3 * a.last_size * a.last_size
                 THEN [a EXCEPT !.outcome = "panic"]
                 ELSE SetStatus(a, "saved_png", "Saved PNG to")
    /\ UNCHANGED <<noiseVars, fractalVars, warpVars, erosionVars, utilVars, storageVars>>

\* a document that an earlier run of the app saved under the name "a": the
\* terrain it generated from the default settings with noise type t and
\* resolution exponent e
StoredDoc(t, e) ==
    LET a == Forced([DefaultApp EXCEPT !.noise_type = t, !.exp = e, !.save_name = "a"])
    IN DocOf([a EXCEPT !.last_grid = Some(TerrainOf(a))])
StoredDocs == {StoredDoc("Perlin2D", 7), StoredDoc("Fractal2D", 8)}

\* that earlier run's Storage2D::create, on the empty collection
StoredEarlier(doc_obj) ==
    /\ ~app.started
    /\ col = <<>>
    /\ col' = <<doc_obj>>
    /\ UNCHANGED <<scall, created, inflight, app, noiseVars, fractalVars, warpVars,
                 erosionVars, utilVars>>

(***************************************************************************)
(* Specifications.                                                         *)
(***************************************************************************)
Init ==
    /\ samplers = [n \in Insts |-> NoSampler]
    /\ sampled = [n \in Insts |-> NoCall]
    /\ hashed = NoHashed
    /\ swaps = [n \in Insts |-> <<>>]
    /\ built = 0
    /\ fractals = [n \in Insts |-> NoFractal]
    /\ returned = [n \in Insts |-> NoGrid]
    /\ genlog = [n \in Insts |-> NoLog]
    /\ held = [n \in Insts |-> NoGrid]
    /\ draws = 0
    /\ fcall = NoFCall
    /\ warped = NoWarped
    /\ direct = NoDirect
    /\ erosion = [n \in Insts |-> NoErosion]
    /\ util = NoUtil
    /\ col = <<>>
    /\ scall = NoSCall
    /\ created = NoDoc
    /\ inflight = NoDoc
    /\ app = NoApp

NoSamplerBuilt == \A n \in Insts : samplers[n].kind = "none"
NoFractalBuilt == \A n \in Insts : fractals[n].size = 0
NoErosionStarted == \A n \in Insts : erosion[n].iterations = -1

\* Two callers, each using one component at a time: two sampler instances, or
\* two Fractal2D instances, or two erosions.
Next ==
    \/ /\ NoFractalBuilt /\ NoErosionStarted
       /\ \E n \in Insts, kind \in Kinds, seed \in Seeds, f \in Frequencies,
             p \in Persistences, o \in 1 .. MaxOctaves :
             NewSampler(n, kind, seed, f, p, o)
    \/ \E n \in Insts, at \in Points2 : CallGet2(n, at)
    \/ \E n \in Insts, at \in Points3 : CallGet3(n, at)
    \/ /\ NoSamplerBuilt /\ NoErosionStarted
       /\ \E n \in Insts, size \in Sizes, seed \in Seeds :
             NewFractal(n, size, seed, Unit \div 2)
    \/ \E n \in Insts : Generate(n)
    \/ \E n \in Insts, at \in Points3 : CallFractalGet3(n, at)
    \/ /\ NoSamplerBuilt /\ NoFractalBuilt
       /\ \E n \in Insts, grid \in {RampGrid, PeakGrid(3, 3, 1, 1, 2 * Unit)},
             it \in 0 .. MaxIterations, t \in {Unit \div 2, Unit} :
             StartErosion(n, grid, it, t)
    \/ \E n \in Insts : ErosionPass(n)

Spec == Init /\ [][Next]_vars

\* One Fractal2D instance and every call on it.
FractalNext ==
    \/ \E size \in Sizes, seed \in FractalSeeds, r \in Roughnesses :
          NewFractal(1, size, seed, r)
    \/ \E size \in Sizes : NewFractalPanics(size)
    \/ Generate(1)
    \/ CallerChanges(1)
    \/ \E c, d \in Coords(fractals[1].size), oc \in BOOLEAN : CallFractalGet2(1, c, d, oc)
    \/ \E at \in Points3 : CallFractalGet3(1, at)

SpecFractal == Init /\ [][FractalNext]_vars

\* DomainWarp2D::generate and the direct sampling of its base.
WarpNext ==
    \/ \E size \in WarpSizes, s \in Strengths \cup OtherStrengths, b \in BaseKinds,
          w \in WarpKinds :
          WarpGenerate(size, s, b, w)
    \/ \E size \in WarpSizes, b \in BaseKinds : SampleDirect(size, b)

SpecWarp == Init /\ [][WarpNext]_vars

\* One erosion, on every grid of the model.
ErosionNext ==
    \/ \E grid \in Grids, it \in 0 .. MaxIterations, t \in TalusAngles :
          StartErosion(1, grid, it, t)
    \/ \E it \in 0 .. MaxIterations, t \in TalusAngles : ApplyPanics(1, it, t)
    \/ ErosionPass(1)

SpecErosion == Init /\ [][ErosionNext]_vars

\* Every utils function on every grid and height of the model.
UtilNext ==
    \/ \E grid \in UtilGrids : CallFlatten2(grid)
    \/ \E grid \in UtilGrids : CallNormalize2(grid)
    \/ \E h \in RgbHeights : CallHeightToRgb(h)

SpecUtils == Init /\ [][UtilNext]_vars

\* Every call on Storage2D, on a collection of at most MaxDocs documents.
StorageNext ==
    \/ \E d \in Docs, delete_ok \in BOOLEAN, insert_ok \in BOOLEAN, i \in 0 .. MaxDocs :
          Create(d, delete_ok, insert_ok, i)
    \/ \E seed \in DocSeeds, ok \in BOOLEAN, i \in 0 .. MaxDocs : ReadBySeed(seed, ok, i)
    \/ \E seed \in DocSeeds, ok \in BOOLEAN, i \in 0 .. MaxDocs : DeleteBySeed(seed, ok, i)
    \/ \E d \in Docs, delete_ok \in BOOLEAN, i \in 0 .. MaxDocs :
          CreateDeleteOne(d, delete_ok, i)
    \/ \E insert_ok \in BOOLEAN : CreateInsertOne(insert_ok)

SpecStorage == Init /\ [][StorageNext]_vars

\* The app, the handlers that reach the database, and another client that
\* deletes documents.
AppNext ==
    \/ \E init_ok \in BOOLEAN, list_ok \in BOOLEAN : AppStart(init_ok, list_ok)
    \/ \E name \in SaveNames : EditSaveName(name)
    \/ \E k \in 1 .. MaxDocs : SelectName(k)
    \/ AppGenerate
    \/ \E init_ok \in BOOLEAN, delete_ok \in BOOLEAN, insert_ok \in BOOLEAN, i \in 0 .. MaxDocs,
          list_init_ok \in BOOLEAN, list_ok \in BOOLEAN :
          SaveToDatabase(init_ok, delete_ok, insert_ok, i, list_init_ok, list_ok)
    \/ \E init_ok \in BOOLEAN, list_ok \in BOOLEAN : RefreshDbList(init_ok, list_ok)
    \/ \E init_ok \in BOOLEAN, read_ok \in BOOLEAN, i \in 0 .. MaxDocs :
          LoadSelected(init_ok, read_ok, i)
    \/ \E i \in 1 .. MaxDocs : OtherClientDeletes(i)

SpecApp == Init /\ [][AppNext]_vars

\* The settings panel: the noise type, the two checkboxes and their sections,
\* the resolution slider, and the buttons that make or load a terrain, with
\* a database that answers and holds at most one document, saved earlier.
PanelNoiseTypes == {"Fractal2D", "Perlin2D"}
PanelNext ==
    \/ \E d \in StoredDocs : StoredEarlier(d)
    \/ AppStart(TRUE, TRUE)
    \/ \E t \in PanelNoiseTypes : SelectNoiseType(t)
    \/ ToggleErosion
    \/ ToggleWarping
    \/ \E section \in {"warping", "erosion"} : ToggleHeader(section)
    \/ \E e \in MinExp .. MinExp + 1 : SetExp(e)
    \/ AppGenerate
    \/ SelectName(1)
    \/ LoadSelected(TRUE, TRUE, 1)
    \/ \E path_chosen \in BOOLEAN : SaveAsPng(path_chosen)

SpecPanel == Init /\ [][PanelNext]_vars

\* Making, saving and loading terrains with edits of the seed and the name in
\* between, on a database that answers.
SaveNext ==
    \/ AppStart(TRUE, TRUE)
    \/ \E name \in SaveNames : EditSaveName(name)
    \/ \E seed \in AppSeeds : EditSeed(seed)
    \/ AppGenerate
    \/ \E i \in 0 .. MaxDocs : SaveToDatabase(TRUE, TRUE, TRUE, i, TRUE, TRUE)
    \/ \E k \in 1 .. MaxDocs : SelectName(k)
    \/ \E i \in 0 .. MaxDocs : LoadSelected(TRUE, TRUE, i)

SpecSave == Init /\ [][SaveNext]_vars

\* A sampler of any kind and seed, and calls of its noise function at points
\* of any sign and magnitude.
LatticeNext ==
    \/ \E kind \in Kinds, seed \in Seeds : NewSampler(1, kind, seed, 1, 1, 1)
    \/ \E x, y \in LatticeValues, z \in {I32Min, 255, I32Max}, i1 \in {0, 1},
          oc \in BOOLEAN :
          CallNoise(1, <<x, y, z>>, i1, oc)

SpecLattice == Init /\ [][LatticeNext]_vars

(***************************************************************************)
(* Properties of the permutation tables, determinism and dispatch (Spec).  *)
(***************************************************************************)
\* C1: the table built by Perlin2D::new, Perlin3D::new and Simplex2D::new is a
\* valid permutation table: entries 0..255 hold each value 0..255 exactly once
\* (the 256 entries take all 256 values),
\* every Fisher-Yates swap index j drawn for i satisfies 0 <= j <= i, and
\* perm[i + 256] = perm[i] for every i in 0..255.
PermutationTableValid ==
    \A n \in Insts :
        samplers[n].kind # "none" =>
            LET perm == samplers[n].perm
            IN /\ DOMAIN perm = 0 .. 511
               /\ {perm[i] : i \in 0 .. 255} = 0 .. 255
               /\ \A i \in 0 .. 255 : perm[i + 256] = perm[i]
               /\ \A i \in 1 .. 255 : swaps[n][i] >= 0 /\ swaps[n][i] <= i

\* a table was built from a seed and it is not the identity any more
PermutationTableBuilt ==
    \E n \in Insts :
        /\ samplers[n].kind = "Simplex2D"
        /\ samplers[n].seed = 1
        /\ \E i \in 0 .. 255 : samplers[n].perm[i] # i
        /\ \E i \in 1 .. 255 : swaps[n][i] = i

SameSamplerInputs(a, b) ==
    /\ samplers[a].kind # "none"
    /\ samplers[a].kind = samplers[b].kind
    /\ samplers[a].seed = samplers[b].seed
    /\ samplers[a].frequency = samplers[b].frequency
    /\ samplers[a].persistence = samplers[b].persistence
    /\ samplers[a].octaves = samplers[b].octaves

SameFractalInputs(a, b) ==
    /\ fractals[a].size # 0
    /\ fractals[a].size = fractals[b].size
    /\ fractals[a].seed = fractals[b].seed
    /\ fractals[a].roughness = fractals[b].roughness

SameErosionInputs(a, b) ==
    /\ erosion[a].iterations # -1
    /\ erosion[a].iterations = erosion[b].iterations
    /\ erosion[a].talus_angle = erosion[b].talus_angle
    /\ erosion[a].start = erosion[b].start

UnsupportedDimensionPanics ==
    /\ \A n \in Insts :
          /\ (sampled[n].call = "get3" /\ samplers[n].kind \in {"Perlin2D", "Simplex2D"})
                => sampled[n].out.panic
          /\ (sampled[n].call = "get2" /\ samplers[n].kind = "Perlin3D")
                => sampled[n].out.panic
    /\ fcall.op = "get3" => fcall.out.panic

\* a 2D sampler was asked for a 3D sample and a 3D sampler for a 2D sample
UnsupportedDimensionAsked ==
    \E n, m \in Insts :
        /\ sampled[n].call = "get3" /\ samplers[n].kind = "Perlin2D"
        /\ sampled[m].call = "get2" /\ samplers[m].kind = "Perlin3D"

(***************************************************************************)
(* Properties of Fractal2D (SpecFractal).                                  *)
(***************************************************************************)
\* size = 2^n + 1 with n >= 1
ValidSize(size) == \E k \in 1 .. MaxSize : size = Pow2(k) + 1

\* C4: Fractal2D::new fails for every size that is < 3 or for which size - 1 is
\* not a power of two, sizes 0, 1 and 2 included; the failure draws no random
\* value and leaves no grid; for every size 2^n + 1 with n >= 1 it succeeds and
\* the instance holds a size x size grid.
NewChecksSize ==
    /\ [](fcall.op = "new" =>
             /\ fcall.out.panic <=> ~ValidSize(fcall.size)
             /\ ~fcall.out.panic =>
                   /\ fractals[fcall.inst].size = fcall.size
                   /\ fractals[fcall.inst].map = ZeroGrid(fcall.size, fcall.size))
    /\ [][(fcall'.op = "new" /\ fcall'.out.panic)
             => UNCHANGED <<fractals, returned, genlog, draws>>]_vars

\* a construction with size 2 failed after random values had been drawn by an
\* instance of a valid size
NewRejectedSizeTwo ==
    /\ fcall.op = "new"
    /\ fcall.size = 2
    /\ fcall.out.panic
    /\ draws > 0
    /\ fractals[1].size = 3

\* C5: generate() produces a complete grid: when the loop has ended every one of
\* the size x size cells has been assigned exactly once, by the corner
\* initialisation, a diamond step or a square step.
GenerateAssignsEveryCellOnce ==
    \A n \in Insts :
        genlog[n].calls > 0 =>
            \A y, x \in 0 .. (fractals[n].size - 1) : genlog[n].writes[y][x] = 1

\* floor(x * size) + 1 >= size, the floor saturating at usize::MAX
PastFarEdge(c, size) == c.cls = "huge" \/ AsUsize(c) + 1 >= size

\* C6: get2 never indexes the retained grid outside [0, size) x [0, size), for
\* any coordinates, and it returns 0 whenever floor(x * size) + 1 >= size or
\* floor(y * size) + 1 >= size.
Get2StaysInsideGrid ==
    fcall.op = "get2" =>
        /\ ~fcall.out.oob
        /\ (PastFarEdge(fcall.at[1], fcall.size) \/ PastFarEdge(fcall.at[2], fcall.size))
              => fcall.out = Value(0)

(***************************************************************************)
(* Properties of DomainWarp2D (SpecWarp).                                  *)
(***************************************************************************)
\* C7: with warp_strength = 0, DomainWarp2D::generate() returns the grid G with
\* G[y][x] = base.get2(x / size, y / size), the same grid as sampling the base
\* directly over the same coordinate grid, for any base, warp and size.
WarpStrengthZeroIsIdentity ==
    (warped.size # -1 /\ warped.warp_strength = 0) =>
        /\ DOMAIN warped.grid = 0 .. (warped.size - 1)
        /\ \A y, x \in 0 .. (warped.size - 1) :
              warped.grid[y][x] =
                  BaseGet2(warped.base, 10 * x, 10 * y, warped.size)
        /\ (direct.size = warped.size /\ direct.base = warped.base)
              => warped.grid = direct.grid

\* a warp that displaces every point was applied with strength 0 over a grid of
\* several cells, next to a direct sampling of the same base, and with another
\* strength the same warp does change the grid
WarpedWithStrengthZero ==
    /\ warped.warp_strength = 0
    /\ warped.warp = 3
    /\ warped.base = 1
    /\ warped.size = 3
    /\ direct.size = 3
    /\ direct.base = 1
    /\ WarpGrid([warped EXCEPT !.warp_strength = 1]) # warped.grid

(***************************************************************************)
(* Properties of ThermalErosion2D (SpecErosion).                           *)
(***************************************************************************)
CellSet(map) == IF map = <<>> THEN {} ELSE {<<y, x>> : y \in DOMAIN map, x \in DOMAIN map[0]}

RECURSIVE SumOver(_, _)
SumOver(map, cells) ==
    IF cells = {} THEN 0
    ELSE LET c == CHOOSE c \in cells : TRUE
         IN map[c[1]][c[2]] + SumOver(map, cells \ {c})
GridSum(map) == SumOver(map, CellSet(map))

RECURSIVE SumAmounts(_, _)
SumAmounts(moves, k) ==
    IF k = 0 THEN 0 ELSE moves[k].amount + SumAmounts(moves, k - 1)
\* the transfers of a pass that satisfy a condition
Received(moves, c) == SelectSeq(moves, LAMBDA m : m.to = c)
Given(moves, c) == SelectSeq(moves, LAMBDA m : m.from = c)

\* C8: thermal erosion conserves mass: in every pass the sum of the delta
\* buffer is zero, because each transfer subtracts from one cell of the grid
\* exactly what it adds to a cell of the grid, so the sum of all cells after
\* any number of passes equals the sum before, for any grid and talus angle.
MassConserved ==
    \A n \in Insts :
        LET e == erosion[n]
        IN e.iterations # -1 =>
              /\ GridSum(e.map) = GridSum(e.start)
              /\ e.pass > 0 =>
                    /\ GridSum(e.delta) = 0
                    /\ \A k \in 1 .. Len(e.moves) :
                          e.moves[k].from \in CellSet(e.map) /\ e.moves[k].to \in CellSet(e.map)
                    /\ \A c \in CellSet(e.map) :
                          e.delta[c[1]][c[2]] =
                              SumAmounts(Received(e.moves, c), Len(Received(e.moves, c)))
                              - SumAmounts(Given(e.moves, c), Len(Given(e.moves, c)))

\* two passes were made and the last one moved height between several cells
HeightMovedInTwoPasses ==
    /\ erosion[1].pass = 2
    /\ Len(erosion[1].moves) >= 2
    /\ erosion[1].map # erosion[1].before
    /\ erosion[1].before # erosion[1].start

\* the in-bounds 4-neighbours of a cell, as indices into an order of offsets
InGrid(map, c, d) == <<c[1] + d[1], c[2] + d[2]>> \in CellSet(map)
DiffTo(map, c, d) == map[c[1]][c[2]] - map[c[1] + d[1]][c[2] + d[2]]
\* the neighbours with the largest strictly positive difference
Steepests(map, c, order) ==
    {k \in 1 .. Len(order) :
        /\ InGrid(map, c, order[k])
        /\ DiffTo(map, c, order[k]) > 0
        /\ \A j \in 1 .. Len(order) :
              InGrid(map, c, order[j]) => DiffTo(map, c, order[j]) <= DiffTo(map, c, order[k])}
\* every transfer from a cell with a lower neighbour goes to the first of the
\* steepest neighbours in this order
TargetsFirstIn(order) ==
    \A n \in Insts :
        LET e == erosion[n]
        IN e.pass > 0 =>
              \A k \in 1 .. Len(e.moves) :
                  LET c == e.moves[k].from
                      best == Steepests(e.before, c, order)
                  IN best # {} =>
                        LET first == order[CHOOSE i \in best : \A j \in best : i <= j]
                        IN e.moves[k].to = <<c[1] + first[1], c[2] + first[2]>>

\* C9 as stated: the transfer target of a cell is its in-bounds 4-neighbour with
\* the largest strictly positive difference, and of several that tie the first
\* in the order up (row - 1), down (row + 1), left (col - 1), right (col + 1).
TargetIsFirstOfUpDownLeftRight ==
    TargetsFirstIn(<<<<-1, 0>>, <<1, 0>>, <<0, -1>>, <<0, 1>>>>)

\* C9: the transfer target of a cell is its in-bounds 4-neighbour with the
\* largest strictly positive difference, and of several that tie the first in
\* the order right (col + 1), down (row + 1), left (col - 1), up (row - 1).
TargetIsFirstOfRightDownLeftUp ==
    TargetsFirstIn(<<<<0, 1>>, <<1, 0>>, <<0, -1>>, <<-1, 0>>>>)

\* the centre of a cross had its upper and its left neighbour tied for the
\* largest difference, and the transfer went left
TieWentLeft ==
    /\ erosion[1].pass = 1
    /\ erosion[1].start = CrossGrid(0, Unit, 0, Unit)
    /\ \E k \in 1 .. Len(erosion[1].moves) :
          erosion[1].moves[k].from = <<1, 1>> /\ erosion[1].moves[k].to = <<1, 0>>

\* the grid is 0 everywhere except at cell c, where it is p
IsSinglePeak(map, c, p) ==
    /\ c \in CellSet(map)
    /\ \A d \in CellSet(map) : map[d[1]][d[2]] = (IF d = c THEN p ELSE 0)
FourNeighbours(map, c) ==
    {d \in CellSet(map) :
        \/ (d[1] = c[1] /\ (d[2] = c[2] + 1 \/ d[2] = c[2] - 1))
        \/ (d[2] = c[2] /\ (d[1] = c[1] + 1 \/ d[1] = c[1] - 1))}

\* C10: on a grid that is 0 everywhere except one cell of height p, with
\* 0 <= talus_angle < p and the peak having an in-bounds neighbour, one pass
\* lowers the peak by exactly (p - talus_angle) / 2, raises exactly one of its
\* 4-neighbours by the same amount and leaves every other cell unchanged.
SinglePeakSmoothed ==
    \A n \in Insts :
        LET e == erosion[n]
        IN e.pass = 1 =>
              \A c \in CellSet(e.start) :
                  LET p == e.start[c[1]][c[2]]
                      t == e.talus_angle
                  IN (IsSinglePeak(e.start, c, p) /\ 0 <= t /\ t < p
                        /\ FourNeighbours(e.start, c) # {}) =>
                        /\ 2 * (p - e.map[c[1]][c[2]]) = p - t
                        /\ e.map[c[1]][c[2]] < p
                        /\ \E d \in FourNeighbours(e.start, c) :
                              /\ 2 * e.map[d[1]][d[2]] = p - t
                              /\ e.map[d[1]][d[2]] > 0
                              /\ \A o \in CellSet(e.map) \ {c, d} : e.map[o[1]][o[2]] = 0

\* the 3 x 3 grid with centre 2.0 went through one pass with talus 1.0
SimplePeakEroded ==
    /\ erosion[1].start = PeakGrid(3, 3, 1, 1, 2 * Unit)
    /\ erosion[1].talus_angle = Unit
    /\ erosion[1].pass = 1
    /\ erosion[1].map[1][1] = 3 * (Unit \div 2)

(***************************************************************************)
(* Range of the sampler outputs (Spec).                                    *)
(***************************************************************************)
\* what a unit of a sampler's total stands for: Perlin2D totals are in eighths,
\* Perlin3D totals in sixteenths, Simplex2D values in units of 1 / Micro
UnitOf(kind) ==
    CASE kind = "Perlin2D" -> 8
      [] kind = "Perlin3D" -> 16
      [] kind = "Simplex2D" -> Micro
Abs(v) == IF v < 0 THEN 0 - v ELSE v
\* the sum of raw_noise * amplitude over the octaves of a Simplex2D call
RECURSIVE SimplexTotal(_)
SimplexTotal(terms) ==
    IF terms = <<>> THEN 0
    ELSE Head(terms)[1][8] * Head(terms)[2] + SimplexTotal(Tail(terms))

\* C15: the multi-octave outputs Perlin2D::get2, Perlin3D::get3 and
\* Simplex2D::get2 lie within [-1 - eps, 1 + eps] (eps = 1e-6), and each
\* single-octave raw noise value has magnitude at most 1.
OutputsWithinUnitRange ==
    \A n \in Insts :
        (sampled[n].call # "none" /\ ~sampled[n].out.panic) =>
            LET kind == samplers[n].kind
                out == sampled[n].out
            IN IF kind = "Simplex2D"
               THEN /\ Abs(SimplexTotal(out.total)) <= (Micro + 1) * out.max_amp
                    /\ \A k \in 1 .. Len(out.total) : Abs(out.total[k][1][8]) <= Micro
               ELSE Abs(out.total) <= UnitOf(kind) * out.max_amp

(***************************************************************************)
(* Range of the Diamond-Square heights (SpecFractal).                      *)
(***************************************************************************)
\* the largest magnitude a run can reach: 1 for the corners, and in each round
\* the diamond step and then the square step each add at most offset
RECURSIVE RangeBound(_, _, _)
RangeBound(step, offset, roughness) ==
    IF step <= 1 THEN Unit
    ELSE 2 * offset + RangeBound(step \div 2, (offset * roughness) \div Unit, roughness)

Generated(n) == fractals[n].size # 0 /\ genlog[n].calls > 0

\* C16 as stated: for roughness <= 1 every value of the grid returned by
\* generate() lies within [-2, 2].
ValuesWithinTwo ==
    \A n \in Insts :
        (Generated(n) /\ fractals[n].roughness <= Unit) =>
            \A c \in CellSet(returned[n]) : Abs(returned[n][c[1]][c[2]]) <= 2 * Unit

\* C16: for 0 <= roughness <= 1 every value of the grid returned by generate()
\* has magnitude at most 1 + 2 * (1 + roughness + .. + roughness^(k - 1)), k the
\* number of rounds, log2(size - 1).
ValuesWithinRoundBound ==
    \A n \in Insts :
        (Generated(n) /\ fractals[n].roughness <= Unit) =>
            \A c \in CellSet(returned[n]) :
                Abs(returned[n][c[1]][c[2]])
                    <= RangeBound(fractals[n].size - 1, Unit, fractals[n].roughness)

\* a grid of size 5 generated with roughness 1.0 holds a value above 2
GeneratedValueAboveTwo ==
    /\ Generated(1)
    /\ fractals[1].size = 5
    /\ fractals[1].roughness = Unit
    /\ \E c \in CellSet(returned[1]) : returned[1][c[1]][c[2]] > 2 * Unit

(***************************************************************************)
(* Properties of the storage (SpecStorage).                                *)
(***************************************************************************)
\* C17: after create(doc) succeeds, read_by_seed(doc.seed) returns a document
\* whose height_map has the same length and values as doc.height_map, whatever
\* the collection already held; and after delete_by_seed(doc.seed) that
\* document is gone.
RoundTripBySeed ==
    (scall.ok /\ scall.since # NoDoc /\ scall.since.seed = scall.seed) =>
        /\ scall.op = "read_by_seed" =>
              /\ scall.found # NoDoc
              /\ Len(scall.found.height_map) = Len(scall.since.height_map)
              /\ scall.found.height_map = scall.since.height_map
        /\ scall.op = "delete_by_seed" =>
              \A i \in 1 .. Len(col) : col[i] # scall.since

\* two documents with the same (name, seed, dimensions)
SameKey(d, e) == d.name = e.name /\ d.seed = e.seed /\ d.dimensions = e.dimensions

\* C26: the collection holds at most one document per (name, seed,
\* dimensions), and it is the most recently created one, after any sequence of
\* create calls from an empty collection, also when the delete step inside
\* create fails and when two create calls for the same key interleave.
UniquePerKey ==
    /\ \A i, j \in 1 .. Len(col) : SameKey(col[i], col[j]) => i = j
    /\ created # NoDoc =>
          \A i \in 1 .. Len(col) : SameKey(col[i], created) => col[i] = created

(***************************************************************************)
(* Properties of the utils functions (SpecUtils).                          *)
(***************************************************************************)
\* C11: flatten2 preserves row-major order: for an n x n grid the result has
\* length n * n, its element y * n + x is grid[y][x] for all 0 <= x, y < n, and
\* the grid handed in is left as it was.
FlattenKeepsRowMajorOrder ==
    util.op = "flatten2" =>
        LET n == RowLen(util.arg)
        IN /\ DOMAIN util.out = 0 .. n * n - 1
           /\ \A y \in 0 .. n - 1 : \A x \in 0 .. n - 1 :
                 util.out[y * n + x] = util.arg[y][x]
           /\ util.after = util.arg

\* a 2 x 2 grid whose two off-diagonal cells differ was flattened
FlattenedAsymmetricGrid ==
    /\ util.op = "flatten2"
    /\ RowLen(util.arg) = 2
    /\ util.arg[0][1] = Fine
    /\ util.arg[1][0] = 6
    /\ util.out[1] = Fine
    /\ util.out[2] = 6

\* C12: after normalize2 on a non-degenerate grid (max - min not below the
\* epsilon floor) the cells that held the smallest value hold exactly 0, the
\* cells that held the largest hold exactly 1, every value lies in [0, 1], the
\* order of values is preserved, and the contrast curve maps 0 to 0 and 1 to 1.
NormalizeSpansUnitInterval ==
    (/\ util.op = "normalize2"
     /\ util.arg # <<>>
     /\ MaxOf(util.arg) - MinOf(util.arg) >= Epsilon) =>
        /\ \A c \in CellSet(util.arg) :
              /\ util.after[c[1]][c[2]] \in 0 .. Norm
              /\ util.arg[c[1]][c[2]] = MinOf(util.arg) => util.after[c[1]][c[2]] = 0
              /\ util.arg[c[1]][c[2]] = MaxOf(util.arg) => util.after[c[1]][c[2]] = Norm
        /\ \A c \in CellSet(util.arg) : \A d \in CellSet(util.arg) :
              util.arg[c[1]][c[2]] <= util.arg[d[1]][d[2]]
                 => util.after[c[1]][c[2]] <= util.after[d[1]][d[2]]
        /\ Gamma(0) = 0
        /\ Gamma(Norm) = Norm

\* the grid -1, 0 / 0.0006, 1 was normalised: 0, 0.5^1.2 / 0.5003^1.2, 1
NormalizedFourLevels ==
    /\ util.op = "normalize2"
    /\ RowLen(util.arg) = 2
    /\ util.arg[0][0] = 0 - Fine /\ util.arg[0][1] = 0
    /\ util.arg[1][0] = 6 /\ util.arg[1][1] = Fine
    /\ util.after[0][0] = 0 /\ util.after[0][1] = 13
    /\ util.after[1][0] = 13 /\ util.after[1][1] = Norm

\* C13: normalize2 never divides by zero: when max - min is below the epsilon
\* floor, the divisor is the floor value, every result is a finite number in
\* [0, 1), and a constant grid is mapped to all zeros.
NormalizeDegenerateUsesFloor ==
    (util.op = "normalize2" /\ util.arg # <<>>) =>
        LET min == MinOf(util.arg)
            max == MaxOf(util.arg)
        IN /\ Range(min, max) > 0
           /\ \A c \in CellSet(util.arg) : util.after[c[1]][c[2]] # NotFinite
           /\ max - min < Epsilon =>
                 /\ Range(min, max) = Epsilon
                 /\ \A c \in CellSet(util.arg) :
                       /\ util.after[c[1]][c[2]] \in 0 .. Norm - 1
                       /\ util.after[c[1]][c[2]]
                             = Gamma(((util.arg[c[1]][c[2]] - min) * Norm) \div Epsilon)
                       /\ max = min => util.after[c[1]][c[2]] = 0

\* a grid of range 0.0006 was normalised: 0.6^1.2 where it was highest
NormalizedNearlyFlatGrid ==
    /\ util.op = "normalize2"
    /\ RowLen(util.arg) = 2
    /\ util.arg[0][0] = 0 /\ util.arg[0][1] = 6
    /\ util.arg[1][0] = 0 /\ util.arg[1][1] = 0
    /\ util.after[0][1] = 17
    /\ util.after[1][1] = 0

\* the band of a height by the thresholds 0.3 / 0.4 / 0.6 / 0.8: its name, its
\* sub-range and its two endpoint colours
BandOf(h) ==
    IF h < WATER_THRESHOLD THEN
        [band |-> "water", low |-> 0, high |-> WATER_THRESHOLD,
         from |-> <<0, 0, 128>>, to |-> <<0, 128, 255>>]
    ELSE IF h < SAND_THRESHOLD THEN
        [band |-> "sand", low |-> WATER_THRESHOLD, high |-> SAND_THRESHOLD,
         from |-> <<194, 178, 128>>, to |-> <<220, 200, 160>>]
    ELSE IF h < GRASS_THRESHOLD THEN
        [band |-> "grass", low |-> SAND_THRESHOLD, high |-> GRASS_THRESHOLD,
         from |-> <<34, 139, 34>>, to |-> <<50, 205, 50>>]
    ELSE IF h < ROCK_THRESHOLD THEN
        [band |-> "rock", low |-> GRASS_THRESHOLD, high |-> ROCK_THRESHOLD,
         from |-> <<128, 128, 128>>, to |-> <<192, 192, 192>>]
    ELSE
        [band |-> "snow", low |-> ROCK_THRESHOLD, high |-> Percent,
         from |-> <<220, 220, 220>>, to |-> <<255, 255, 255>>]

\* C14: for every height h in [0, 1], height_to_rgb selects the band by the
\* thresholds 0.3 / 0.4 / 0.6 / 0.8 and interpolates with
\* t = (h - band_low) / (band_high - band_low), so t lies in [0, 1] and each
\* output channel lies between the two endpoint values of that band.
RampInterpolatesWithinBand ==
    util.op = "height_to_rgb" =>
        LET b == BandOf(util.arg)
            r == util.out
        IN /\ r.band = b.band
           /\ r.tn * (b.high - b.low) = (util.arg - b.low) * r.td
           /\ 0 <= r.tn /\ r.tn <= r.td
           /\ \A i \in 1 .. 3 : b.from[i] <= r.rgb[i] /\ r.rgb[i] <= b.to[i]

(***************************************************************************)
(* Properties of the app (SpecApp).                                        *)
(***************************************************************************)
\* the arms of the handlers in which a storage interaction failed
ConnectivityOutcomes == {"init_error", "list_error", "read_error", "save_failed"}
ConnectivityMessages ==
    {"DB init error", "List error", "Read error", "Failed to save to MongoDB"}
\* the fields a status report may write
StatusFields == {"status_message", "outcome", "started"}

\* a step of a handler that reaches the database
StorageInteraction ==
    \/ \E init_ok \in BOOLEAN, list_ok \in BOOLEAN :
          AppStart(init_ok, list_ok) \/ RefreshDbList(init_ok, list_ok)
    \/ \E init_ok \in BOOLEAN, delete_ok \in BOOLEAN, insert_ok \in BOOLEAN, i \in 0 .. MaxDocs,
          list_init_ok \in BOOLEAN, list_ok \in BOOLEAN :
          SaveToDatabase(init_ok, delete_ok, insert_ok, i, list_init_ok, list_ok)
    \/ \E init_ok \in BOOLEAN, read_ok \in BOOLEAN, i \in 0 .. MaxDocs :
          LoadSelected(init_ok, read_ok, i)

\* C18: a persistence failure never touches the in-memory terrain: every step
\* of the app that ends in a failing storage interaction (DB init error, list
\* error, read error, name not found, failed save) changes only
\* status_message, so last_grid, last_flat, last_size and terrain_texture are
\* exactly as they were; a connectivity failure reports one of the
\* connectivity messages and a missing record reports "Name not found", which
\* is none of them.
FailuresKeepTheTerrain ==
    [][(StorageInteraction /\ app'.outcome \in ConnectivityOutcomes \cup {"not_found"}) =>
          /\ \A f \in (DOMAIN app) \ StatusFields : app'[f] = app[f]
          /\ app'.last_grid = app.last_grid /\ app'.last_flat = app.last_flat
          /\ app'.last_size = app.last_size
          /\ app'.terrain_texture = app.terrain_texture
          /\ app'.outcome \in ConnectivityOutcomes =>
                 app'.status_message \in ConnectivityMessages
          /\ app'.outcome = "not_found" =>
                 /\ app'.status_message = "Name not found"
                 /\ app'.status_message \notin ConnectivityMessages]_vars
\* a terrain is in memory and the selected name is no longer in the database
MissingRecordWithTerrainInMemory ==
    /\ app.outcome = "not_found"
    /\ app.last_grid.some /\ app.last_flat.some /\ app.terrain_texture.some

(***************************************************************************)
(* Reads of the Diamond-Square rounds (SpecFractal).                       *)
(***************************************************************************)
\* C19: in Fractal2D::generate() every cell read to form an average was
\* assigned earlier in the run, by the corner initialisation or by an earlier
\* diamond or square step, so no average reads an untouched initial zero; and
\* every square-step average uses between 2 and 4 neighbours.
AveragesReadAssignedCells ==
    \A n \in Insts :
        Generated(n) =>
            /\ genlog[n].stale = {}
            /\ genlog[n].counts \subseteq 2 .. 4

(***************************************************************************)
(* The grid a Fractal2D retains (SpecFractal).                             *)
(***************************************************************************)
\* the last call was get2 on instance n
SampledLast(n) == fcall.op = "get2" /\ fcall.inst = n

\* C20: Fractal2D keeps the last generated grid: before the first generate()
\* the retained map is all zeros and every get2 returns 0; after a generate()
\* the retained map is the grid that call returned, also after the caller
\* has changed the grid it holds in place, and get2 samples the grid that was
\* returned, not the changed one.
RetainsLastGrid ==
    \A n \in Insts :
        fractals[n].size # 0 =>
            /\ genlog[n].calls = 0 =>
                   /\ fractals[n].map = ZeroMap(fractals[n].size)
                   /\ SampledLast(n) => fcall.out = Value(0)
            /\ genlog[n].calls > 0 =>
                   /\ fractals[n].map = returned[n]
                   /\ SampledLast(n) =>
                          fcall.out = FractalGet2([fractals[n] EXCEPT !.map = returned[n]],
                                                  fcall.at[1], fcall.at[2], fcall.at[3])

(***************************************************************************)
(* The calls DomainWarp2D::generate makes (SpecWarp).                      *)
(***************************************************************************)
\* the grid is size x size, every cell has one call of the base, and the warp
\* is called at (3 * fx, 3 * fy) and then at (3 * (fx + 5.2), 3 * (fy + 5.2))
WarpCallsAsStated ==
    /\ DOMAIN warped.grid = 0 .. (warped.size - 1)
    /\ \A y, x \in 0 .. (warped.size - 1) :
          /\ DOMAIN warped.grid[y] = 0 .. (warped.size - 1)
          /\ Len(warped.calls[y][x].base_at) = 1
          /\ warped.calls[y][x].warp_at =
                <<<<3 * (10 * x), 3 * (10 * y)>>,
                  <<3 * (10 * x + 52 * warped.size), 3 * (10 * y + 52 * warped.size)>>>>
\* every call of the base is at a point of the unit square
BaseCallsInUnitSquare ==
    \A y, x \in 0 .. (warped.size - 1) :
        \A k \in 1 .. Len(warped.calls[y][x].base_at) :
            LET at == warped.calls[y][x].base_at[k]
            IN /\ at[1] # NaN /\ 0 <= at[1] /\ at[1] <= 10 * warped.size
               /\ at[2] # NaN /\ 0 <= at[2] /\ at[2] <= 10 * warped.size

\* C21 as stated: DomainWarp2D::generate() returns a size x size grid and, for
\* any warp with finite values and any warp_strength, calls the base exactly
\* once per cell and only at (wx, wy) with 0 <= wx <= 1 and 0 <= wy <= 1, and
\* calls the warp at (3*fx, 3*fy) and (3*(fx + 5.2), 3*(fy + 5.2)).
BaseQueriedInUnitSquare ==
    warped.size # -1 => (WarpCallsAsStated /\ BaseCallsInUnitSquare)

\* C21: the same for any warp with finite values and any warp_strength that
\* is finite (of any sign); for every warp_strength, also infinite or NaN,
\* the grid is size x size, the base is called once per cell and the warp is
\* called at the two stated points.
BaseQueriedInUnitSquareIfFinite ==
    warped.size # -1 =>
        /\ WarpCallsAsStated
        /\ IsFinite(warped.warp_strength) => BaseCallsInUnitSquare
\* a large negative warp value pushes a cell above 1 with a negative strength
\* and below 0 with a positive one
WarpClampedBelowZero ==
    /\ warped.size = 3 /\ warped.warp_strength = 0 - 3 /\ warped.warp = 2
    /\ warped.calls[1][1].base_at = <<<<30, 30>>>>
    /\ WarpCellRun([warped EXCEPT !.warp_strength = 1], 1, 1).base_at = <<<<0, 0>>>>

(***************************************************************************)
(* Transfers of an erosion pass (SpecErosion).                             *)
(***************************************************************************)
\* C22: for every grid and every talus angle, zero and negative values
\* included, each transfer of an erosion pass moves height from a cell of the
\* grid to one of its own in-bounds 4-neighbours that is strictly lower than
\* the cell: no cell gains height from a cell that is not its 4-neighbour and
\* nothing is moved to or from a position outside the grid.
TransfersGoToLowerNeighbours ==
    \A n \in Insts :
        LET e == erosion[n]
        IN e.pass > 0 =>
              \A k \in 1 .. Len(e.moves) :
                  LET from == e.moves[k].from
                      to == e.moves[k].to
                  IN /\ from \in CellSet(e.before)
                     /\ to \in FourNeighbours(e.before, from)
                     /\ e.before[to[1]][to[2]] < e.before[from[1]][from[2]]

\* the largest difference from a cell down to an in-bounds 4-neighbour, 0 when
\* no neighbour is lower
LargestDrop(map, c) ==
    LET drops == {map[c[1]][c[2]] - map[d[1]][d[2]] : d \in FourNeighbours(map, c)} \cup {0}
    IN CHOOSE m \in drops : \A o \in drops : o <= m
\* no two 4-adjacent cells differ by more than talus_angle
IsStable(map, talus_angle) == \A c \in CellSet(map) : LargestDrop(map, c) <= talus_angle

\* C23: with talus_angle >= 0, a cell whose largest downhill difference to a
\* 4-neighbour does not exceed talus_angle gives nothing away in a pass; a
\* grid in which no two 4-adjacent cells differ by more than talus_angle is
\* unchanged after any number of passes; and apply with iterations = 0 leaves
\* any grid unchanged.
BelowThresholdNothingMoves ==
    \A n \in Insts :
        LET e == erosion[n]
        IN e.iterations # -1 =>
              /\ (e.talus_angle >= 0 /\ e.pass > 0) =>
                    \A c \in CellSet(e.before) :
                        LargestDrop(e.before, c) <= e.talus_angle =>
                            /\ \A k \in 1 .. Len(e.moves) : e.moves[k].from # c
                            /\ e.delta[c[1]][c[2]] >= 0
              /\ (e.talus_angle >= 0 /\ IsStable(e.start, e.talus_angle)) =>
                    e.map = e.start /\ (e.pass > 0 => e.moves = <<>>)
              /\ e.iterations = 0 => (e.pass = 0 /\ e.map = e.start)
\* a peak whose drop equals the talus angle went through two passes
StablePeakPassedTwice ==
    /\ erosion[1].start = PeakGrid(3, 3, 1, 1, Unit)
    /\ erosion[1].talus_angle = Unit
    /\ erosion[1].pass = 2
    /\ erosion[1].map = erosion[1].start

\* Orders in which the cells of a pass can be processed: every order of a grid
\* of at most four cells; of a larger grid the reversed sweep, the column-major
\* sweep, the sweep started at any cell, and the sweep dealt out to two workers
\* whose transfers reach the delta buffer one worker after the other.
AllOrders(cells) ==
    {Table([k \in 1 .. Len(cells) |-> cells[f[k]]]) :
        f \in {g \in [1 .. Len(cells) -> 1 .. Len(cells)] :
                 \A i, j \in 1 .. Len(cells) : i # j => g[i] # g[j]}}
Reversed(cells) == Table([k \in 1 .. Len(cells) |-> cells[Len(cells) + 1 - k]])
StartedAt(cells, r) ==
    Table([k \in 1 .. Len(cells) |-> cells[((k - 1 + r) % Len(cells)) + 1]])
ColumnMajor(map) ==
    Table([k \in 1 .. Rows(map) * Cols(map) |->
             <<(k - 1) % Rows(map), (k - 1) \div Rows(map)>>])
TwoWorkers(cells) ==
    SelectSeq(cells, LAMBDA c : (c[1] + c[2]) % 2 = 1)
    \o SelectSeq(cells, LAMBDA c : (c[1] + c[2]) % 2 = 0)
OrdersOf(map) ==
    LET cells == CellsOf(map)
    IN IF Len(cells) <= 4 THEN AllOrders(cells)
       ELSE {Reversed(cells), ColumnMajor(map), TwoWorkers(cells)}
            \cup {StartedAt(cells, r) : r \in 1 .. (Len(cells) - 1)}
\* the transfers of a pass, whatever their order
MoveSet(moves) == {moves[k] : k \in 1 .. Len(moves)}

\* C24: within one pass every cell's decision reads only the grid as it was at
\* the start of the pass: each transfer is the one the start-of-pass grid
\* gives for its cell, and processing the cells in another order (also dealt
\* out to workers that each add their transfer to the delta buffer) makes the
\* same transfers and gives the same post-pass grid as the row-major sweep;
\* and each pass starts from the complete result of the pass before it.
PassIsOrderIndependent ==
    [][\A n \in Insts :
          erosion'[n].pass = erosion[n].pass + 1 =>
              LET e == erosion'[n]
              IN /\ e.before = erosion[n].map
                 /\ \A k \in 1 .. Len(e.moves) :
                       LET m == e.moves[k]
                           s == Steepest(e.before, m.from[1], m.from[2])
                       IN /\ m.to = s.max_n
                          /\ m.amount = Amount(s.max_diff, e.talus_angle)
                 /\ \A cells \in OrdersOf(e.before) :
                       LET r == PassOver(e.before, e.talus_angle, cells)
                       IN /\ r.map = e.map
                          /\ r.delta = e.delta
                          /\ MoveSet(r.moves) = MoveSet(e.moves)]_vars
\* in the second pass over a grid of three rows, a cell received from one cell
\* and gave to another
SecondPassChainedTransfers ==
    /\ erosion[1].pass = 2
    /\ Rows(erosion[1].before) = 3
    /\ \E j, k \in 1 .. Len(erosion[1].moves) :
          erosion[1].moves[j].to = erosion[1].moves[k].from

(***************************************************************************)
(* Totality of the hashing (SpecLattice).                                  *)
(***************************************************************************)
\* C25: sampling is total: for every permutation table and every finite
\* coordinate of any sign or magnitude, its floor taken as a saturated i32,
\* every index into perm computed by Perlin2D::noise, Perlin3D::noise and
\* Simplex2D::raw_noise lies in 0..511, every gradient index in 0..11, and no
\* integer addition (such as i + j or index + 1) overflows.
HashingIsTotal ==
    hashed.kind # "none" =>
        /\ ~hashed.panic
        /\ hashed.table \subseteq PermIdx
        /\ hashed.grads \subseteq 0 .. (GradCount - 1)
        /\ \A a \in hashed.adds : ~AddI32Overflows(a[1], a[2])
        /\ \A a \in hashed.uadds : a[1] >= 0 /\ a[2] >= 0 /\ a[1] + a[2] < PermSize

\* a click on "Save to Database"
SaveClicked ==
    \E init_ok \in BOOLEAN, delete_ok \in BOOLEAN, insert_ok \in BOOLEAN, i \in 0 .. MaxDocs,
       list_init_ok \in BOOLEAN, list_ok \in BOOLEAN :
       SaveToDatabase(init_ok, delete_ok, insert_ok, i, list_init_ok, list_ok)
\* the arms of "Save to Database" that insert no document
NotInserted == {"no_name", "no_grid", "save_failed"}

\* C29: the document written by "Save to Database" holds the flattened grid
\* of the terrain on display and the seed, noise type and parameters that
\* terrain was generated or loaded with; with a blank name or no grid nothing
\* is written.
SavedDocumentIsConsistent ==
    [][SaveClicked =>
          /\ (Trim(app.save_name) = "" \/ ~app.last_grid.some) => col' = col
          /\ app'.outcome \notin NotInserted =>
                LET d == col'[Len(col')]
                    shown == app.terrain_texture.val.of
                IN /\ d.height_map.of = shown
                   /\ d.height_map.len = shown.size * shown.size
                   /\ d.seed = shown.seed
                   /\ d.params.noise_type = Lower(shown.noise_type)
                   /\ d.params.values = shown.params]_vars

(***************************************************************************)
(* Properties of the settings panel (SpecPanel).                           *)
(***************************************************************************)
\* C27: whenever "Generate Terrain" is handled, enable_erosion implies
\* noise_type = Fractal2D and enable_warping implies noise_type # Fractal2D,
\* so no Perlin or Simplex grid is eroded and no Fractal2D grid is warped.
FlagsFollowNoiseTypeAtGenerate ==
    app.last_grid.some =>
        /\ app.last_grid.val.eroded => app.last_grid.val.noise_type = "Fractal2D"
        /\ app.last_grid.val.warped => app.last_grid.val.noise_type # "Fractal2D"

\* C28: whenever last_flat is Some it is an RGB buffer of exactly
\* 3 * last_size * last_size bytes, after any sequence of "Generate Terrain",
\* "Load Selected" and resolution changes, so "Save as PNG" never fails on a
\* length mismatch.
FlatIsRgbOfLastSize ==
    /\ app.last_flat.some =>
          /\ app.last_flat.val.enc = "rgb"
          /\ app.last_flat.val.len = 3 * app.last_size * app.last_size
    /\ app.outcome # "panic"

\* a move of the resolution slider
SliderMoves == \E e \in MinExp .. MinExp + 1 : SetExp(e)

\* C30: when the resolution slider changes exp so that the size 2^exp + 1
\* differs from the previous size, terrain_texture and last_flat are reset to
\* None and the status is "Texture reset due to size change".
SizeChangeResets ==
    [][(SliderMoves /\ SizeOf(app'.exp) # SizeOf(app.exp)) =>
          /\ app'.terrain_texture = None
          /\ app'.last_flat = None
          /\ app'.status_message = "Texture reset due to size change"]_vars

====
